---- MODULE Spec2Model ----
(***************************************************************************)
(* Model of the channel optimization utilities of the TV optimizer         *)
(* (src/unnamed/part_001): filterRelevantChannels, calculateStatus,        *)
(* getProtectedChannels and runOptimization, applied to channel lists.     *)
(*                                                                         *)
(* Units.  The source works on decimal numbers.  The records the           *)
(* repository produces carry reaches, gaps and shares with two decimals    *)
(* and indexVsCompetition with one decimal (calculateDistrictChannels,     *)
(* toFixed(2) / toFixed(1)), so the model keeps                            *)
(*   brandAReach, maxCompReach, gap, channelShare in hundredths of a point *)
(*   (1.5 is 150) and indexVsCompetition in tenths (120 is 1200, the       *)
(*   sentinel 999 is 9990).                                                *)
(* Every literal of the source is scaled the same way where it is compared *)
(* with such a field.  intensity and threshold are plain integers.         *)
(***************************************************************************)
EXTENDS Integers, Sequences, FiniteSets, TLC

VARIABLES
    channels,           \* the channel list handed to the utilities (input data)
    displayChannels,    \* the list after the last filterRelevantChannels call
    filterMode,         \* mode of the last filterRelevantChannels call, "none" before
    intensity,          \* argument of the last runOptimization call
    threshold,          \* argument of the last getProtectedChannels / runOptimization call
    statuses,           \* return values of calculateStatus, one per displayed channel
    protectedChannels,  \* return value of getProtectedChannels
    results,            \* return value of runOptimization: channel name -> result
    pc,                 \* which call has returned: ready, classified, protected, optimized, ...
    market,             \* the market the timeband utilities are called for
    timebands,          \* the TimebandMetrics list of one channel (input data)
    scores,             \* return value of rankTimebandsByScore
    recommendations,    \* return value of generateTimebandRecommendations
    insights,           \* return value of generateSimplifiedInsights
    allMarketData,      \* the channel lists of UP, Maharashtra and Karnataka (input data)
    comparisons,        \* return value of compareTimebandAcrossGeographies
    serChannels,        \* the channel list of a region (SER), input of the district scaling
    district,           \* the DistrictRecord the region's channels are scaled to
    serDistricts,       \* the DistrictRecords of the region
    districtChannels,   \* return value of calculateDistrictChannels
    jitterCalls,        \* the calls of getChannelJitter and getChannelPresence made so far
    frame,              \* the last call of a transform function: its input before and after
    app,                \* the useState values of the App component
    hooks               \* what the App's hooks keep between renders: ref, deps, memo

\* the state of the channel utilities (part_001)
channelVars == <<channels, displayChannels, filterMode, threshold,
                 statuses, protectedChannels, results>>
\* the state of the timeband utilities (timebandOptimization.ts)
timebandVars == <<market, timebands, scores, recommendations, insights>>

\* the state of the cross-geography analysis (crossGeoAnalysis.ts)
geoVars == <<allMarketData, comparisons>>
\* the state of the district scaling (channelLanguageFilter.ts)
districtVars == <<serChannels, district, serDistricts, districtChannels>>
\* the calls made of the exported helpers of the district scaling
callVars == <<jitterCalls>>
\* the caller's view of the array it handed to a transform function
frameVars == <<frame>>
\* the state of the mounted App component (App.tsx)
appVars == <<app, hooks>>
sessionVars == <<callVars, frameVars, appVars>>
analysisVars == <<geoVars, districtVars, sessionVars>>

vars == <<channelVars, intensity, pc, timebandVars, analysisVars>>

(***************************************************************************)
(* Bounds and input values                                                 *)
(***************************************************************************)
MaxChannels == 3
LongListLength == 100

\* slider range 5..30: both sides of the <=10 and <=20 breaks, the ends, the default
Intensities == {5, 10, 11, 15, 20, 21, 30}
\* slider range 50..90 in steps of 5: the ends, the default and one step between
Thresholds == {50, 55, 70, 90}

ReachValues == {0, 50, 100, 149, 500}
CompValues == {0, 100, 200, 300, 500, 600}
ShareValues == {50, 60, 100}
GapValues == {-600, -500, -300, -200, -100}
IndexValues == {0, 500, 600, 700, 800, 900, 1000, 1200, 1201, 1500}

ChannelRecord(name, reach, comp, gap, share, index) ==
    [channel |-> name, brandAReach |-> reach, maxCompReach |-> comp,
     gap |-> gap, channelShare |-> share, indexVsCompetition |-> index]

\* x / y rounded to the nearest integer, halves up (toFixed on the scaled value)
RoundDiv(x, y) == (2 * x + y) \div (2 * y)

\* gap and indexVsCompetition as the repository derives them from the reaches
derivedGap(reach, comp) == reach - comp
derivedIndex(reach, comp) ==
    IF comp > 0 THEN RoundDiv(1000 * reach, comp)
    ELSE IF reach > 0 THEN 9990 ELSE 0

DerivedRecord(name, reach, comp, share) ==
    ChannelRecord(name, reach, comp, derivedGap(reach, comp), share,
                  derivedIndex(reach, comp))

\* records whose five numeric fields are independent of one another
FreeRecords ==
    { ChannelRecord(1, r, c, g, s, x) :
        r \in ReachValues, c \in CompValues, g \in GapValues,
        s \in ShareValues, x \in IndexValues }

\* records that satisfy the data-model invariants
DerivedRecords ==
    { DerivedRecord(1, r, c, s) :
        r \in ReachValues, c \in CompValues, s \in ShareValues }

\* the records that make up the longer lists
ListRecords ==
    { DerivedRecord(1, r, c, 100) : r \in {0, 149, 500}, c \in {100, 600} }

\* channel names are unique within a list: the name is the position
Named(f) == [i \in DOMAIN f |-> [f[i] EXCEPT !.channel = i]]

\* a market-sized list: every channel carries the brand, reaches repeat
LongList(n) ==
    [i \in 1..n |->
        DerivedRecord(i, 100 + 10 * (i % 5), IF i % 2 = 0 THEN 100 ELSE 600, 100)]

InputLists ==
    { <<r>> : r \in FreeRecords \cup DerivedRecords }
      \cup UNION { { Named(f) : f \in [1..n -> ListRecords] } : n \in 2..MaxChannels }
      \cup { LongList(LongListLength) }

(***************************************************************************)
(* Sequence helpers                                                        *)
(***************************************************************************)
Range(s) == { s[i] : i \in DOMAIN s }
Includes(s, x) == \E i \in DOMAIN s : s[i] = x

(***************************************************************************)
(* filterRelevantChannels                                                  *)
(***************************************************************************)
\* isActiveBrandAChannel with the 1.0 bound taken inclusively
isActiveBrandAChannelInclusive(ch) ==
    ch.brandAReach >= 100 \/ (ch.brandAReach > 50 /\ ch.channelShare > 50)

\* isActiveBrandAChannel with the share bar of the second disjunct at 1.0
isActiveBrandAChannelHighShare(ch) ==
    ch.brandAReach > 100 \/ (ch.brandAReach > 50 /\ ch.channelShare > 100)

\* Tier 1: active channels with meaningful presence
isActiveBrandAChannel(ch) ==
    ch.brandAReach > 100 \/ (ch.brandAReach > 50 /\ ch.channelShare > 50)

\* isRealOpportunity with the competitor bar at 1.0
isRealOpportunityLowBar(ch) ==
    ch.brandAReach = 0 /\ ch.maxCompReach >= 100 /\ ch.channelShare >= 100

\* Tier 2: real opportunities
isRealOpportunity(ch) ==
    ch.brandAReach = 0 /\ ch.maxCompReach >= 200 /\ ch.channelShare >= 100

\* Tier 3: emerging channels
isEmergingChannel(ch) ==
    ch.brandAReach > 50 /\ ch.brandAReach <= 100 /\ ch.channelShare > 50

isRelevant(ch) ==
    isActiveBrandAChannel(ch) \/ isRealOpportunity(ch) \/ isEmergingChannel(ch)

filterRelevantChannels(chs, mode) ==
    IF mode = "all" THEN chs ELSE SelectSeq(chs, isRelevant)

(***************************************************************************)
(* calculateStatus                                                         *)
(***************************************************************************)
StatusLabels ==
    {"DOMINANT", "LEADING", "CLOSE", "BEHIND", "CRITICAL",
     "OPPORTUNITY", "MONOPOLY", "INACTIVE"}

\* calculateStatus with the DOMINANT break taken strictly (index > 150)
calculateStatusStrictDominant(ch) ==
    IF ch.brandAReach = 0 /\ ch.maxCompReach = 0 THEN "INACTIVE"
    ELSE IF ch.brandAReach = 0 /\ ch.maxCompReach >= 200 /\ ch.channelShare >= 100
        THEN "OPPORTUNITY"
    ELSE IF ch.brandAReach = 0 /\ ch.maxCompReach > 0 THEN "INACTIVE"
    ELSE IF ch.brandAReach > 0 /\ ch.maxCompReach = 0 THEN "MONOPOLY"
    ELSE IF ch.indexVsCompetition > 1500 THEN "DOMINANT"
    ELSE IF ch.indexVsCompetition >= 1000 THEN "LEADING"
    ELSE IF ch.indexVsCompetition >= 800 THEN "CLOSE"
    ELSE IF ch.indexVsCompetition >= 500 THEN "BEHIND"
    ELSE "CRITICAL"

calculateStatus(ch) ==
    IF ch.brandAReach = 0 /\ ch.maxCompReach = 0 THEN "INACTIVE"
    ELSE IF ch.brandAReach = 0 /\ ch.maxCompReach >= 200 /\ ch.channelShare >= 100
        THEN "OPPORTUNITY"
    ELSE IF ch.brandAReach = 0 /\ ch.maxCompReach > 0 THEN "INACTIVE"
    ELSE IF ch.brandAReach > 0 /\ ch.maxCompReach = 0 THEN "MONOPOLY"
    ELSE IF ch.indexVsCompetition >= 1500 THEN "DOMINANT"
    ELSE IF ch.indexVsCompetition >= 1000 THEN "LEADING"
    ELSE IF ch.indexVsCompetition >= 800 THEN "CLOSE"
    ELSE IF ch.indexVsCompetition >= 500 THEN "BEHIND"
    ELSE "CRITICAL"

(***************************************************************************)
(* getProtectedChannels                                                    *)
(***************************************************************************)
hasBrandA(ch) == ch.brandAReach > 0

\* the comparator (a, b) => b.brandAReach - a.brandAReach
compareReach(a, b) == b.brandAReach - a.brandAReach

\* the elements of rest that the comparator orders before every other one, in
\* their input order, followed by the sorted others
RECURSIVE sortedFrom(_)
sortedFrom(rest) ==
    IF rest = << >> THEN << >>
    ELSE LET isFirst(a) == \A k \in DOMAIN rest : compareReach(a, rest[k]) <= 0
             isLater(a) == ~isFirst(a)
         IN  SelectSeq(rest, isFirst) \o sortedFrom(SelectSeq(rest, isLater))

\* Array.prototype.sort with that comparator: descending by brandAReach and
\* stable, so channels of equal reach keep their input order
sortByReachDesc(chs) == sortedFrom(chs)

(***************************************************************************)
(* Math.ceil(sorted.length * (threshold / 100)) is evaluated in IEEE-754    *)
(* double precision: the quotient and the product are each rounded to a    *)
(* 53-bit significand (nearest, ties to even).  A natural number below     *)
(* 2^72 is a sequence of four limbs of 18 bits, least significant first;   *)
(* a double x in [0, 2^19) is the natural number x * 2^53.                 *)
(***************************************************************************)
SignificandBits == 53
LimbBits == 18
Limb == 2^LimbBits

\* the bits of a significand above its two low limbs
TopBits == SignificandBits - 2 * LimbBits

\* carry every limb's excess into the next limb
normalize(limbs) ==
    LET second == limbs[2] + limbs[1] \div Limb
        third == limbs[3] + second \div Limb
    IN  <<limbs[1] % Limb, second % Limb, third % Limb, limbs[4] + third \div Limb>>

\* threshold / 100 for 50 <= threshold < 100: the quotient lies in [1/2, 1), so its
\* significand is threshold * 2^53 / 100 rounded to an integer, found by long
\* division limb by limb
doubleDiv100(t) ==
    LET top == (t * 2^TopBits) \div 100
        topRest == (t * 2^TopBits) % 100
        mid == (topRest * Limb) \div 100
        midRest == (topRest * Limb) % 100
        low == (midRest * Limb) \div 100
        lowRest == (midRest * Limb) % 100
        up == 2 * lowRest > 100 \/ (2 * lowRest = 100 /\ low % 2 = 1)
    IN  normalize(<<low + (IF up THEN 1 ELSE 0), mid, top, 0>>)

\* the doubles of the slider's thresholds
thresholdFraction == [t \in Thresholds |-> doubleDiv100(t)]

\* n * x for a double x in [1/2, 1) and an integer 1 <= n < 2^7: the exact product
\* has 53 + s bits and is rounded on its s low bits
doubleMul(n, x) ==
    LET exact == normalize(<<x[1] * n, x[2] * n, x[3] * n, x[4] * n>>)
        top == exact[4] * Limb + exact[3]
        s == Cardinality({ k \in 1..(LimbBits - 1) : top \div 2^(TopBits - 1) >= 2^k })
        low == exact[1] % 2^s
        keptOdd == (exact[1] \div 2^s) % 2 = 1
        up == 2 * low > 2^s \/ (2 * low = 2^s /\ keptOdd)
    IN  normalize(<<exact[1] - low + (IF up THEN 2^s ELSE 0),
                    exact[2], exact[3], exact[4]>>)

\* Math.ceil of a double x >= 0
doubleCeil(x) ==
    LET whole == x[4] * 2^(LimbBits - TopBits) + x[3] \div 2^TopBits
        fraction == x[3] % 2^TopBits # 0 \/ x[2] # 0 \/ x[1] # 0
    IN  IF fraction THEN whole + 1 ELSE whole

doubleCutoff(n, t) ==
    IF n = 0 THEN 0 ELSE doubleCeil(doubleMul(n, thresholdFraction[t]))

\* the values of the expression for every list length and threshold of the model
ListLengths == 0..(IF MaxChannels > LongListLength THEN MaxChannels ELSE LongListLength)
cutoffTable == [n \in ListLengths |-> [t \in Thresholds |-> doubleCutoff(n, t)]]

\* Math.ceil(sorted.length * (threshold / 100))
cutoffOf(n, t) == cutoffTable[n][t]

\* slice(0, cutoff)
slice0(s, cutoff) == SubSeq(s, 1, IF cutoff < Len(s) THEN cutoff ELSE Len(s))

getProtectedChannels(chs, t) ==
    LET withBrandA == SelectSeq(chs, hasBrandA)
        sorted == sortByReachDesc(withBrandA)
        cutoff == cutoffOf(Len(sorted), t)
        top == slice0(sorted, cutoff)
    IN  [i \in DOMAIN top |-> top[i].channel]

(***************************************************************************)
(* runOptimization                                                         *)
(***************************************************************************)
\* gapThresholdOf with the first break one step early (intensity < 10)
gapThresholdEarlyBreak(i) == IF i < 10 THEN -300 ELSE IF i <= 20 THEN -200 ELSE -100

gapThresholdOf(i) == IF i <= 10 THEN -300 ELSE IF i <= 20 THEN -200 ELSE -100
\* indexThresholdOf with the ladder reversed
indexThresholdReversed(i) == IF i <= 10 THEN 900 ELSE IF i <= 20 THEN 800 ELSE 700

indexThresholdOf(i) == IF i <= 10 THEN 700 ELSE IF i <= 20 THEN 800 ELSE 900

OptimizationResult(ch, recommendation, priority, reason) ==
    [channel |-> ch.channel, recommendation |-> recommendation,
     priority |-> priority, reason |-> reason]

\* the result a channel leaves when it is skipped or matches no rule
NoEntry == [recommendation |-> "NONE"]

\* "Skip completely inactive channels"
skipRule(ch) == ch.brandAReach = 0 /\ ch.maxCompReach = 0

\* addRule without the channel-share condition
addRuleAnyShare(ch) == ch.brandAReach = 0 /\ ch.maxCompReach >= 200

\* OPPORTUNITY -> ADD
addRule(ch) ==
    ch.brandAReach = 0 /\ ch.maxCompReach >= 200 /\ ch.channelShare >= 100

addPriority(ch) ==
    IF ch.maxCompReach > 500 THEN "HIGH"
    ELSE IF ch.maxCompReach > 300 THEN "MEDIUM" ELSE "LOW"

\* BEHIND/CRITICAL -> INCREASE
increaseRule(ch, gapThreshold, indexThreshold) ==
    ch.brandAReach > 0 /\ ch.gap < gapThreshold
        /\ ch.indexVsCompetition < indexThreshold

increasePriority(ch) ==
    IF ch.gap < -500 THEN "HIGH"
    ELSE IF ch.gap < -200 THEN "MEDIUM" ELSE "LOW"

\* maintainRule without the "leading" disjunct
maintainRuleProtectedOnly(ch, isProtected) == isProtected

\* PROTECTED or LEADING -> MAINTAIN
maintainRule(ch, isProtected) ==
    isProtected \/ ch.indexVsCompetition >= 1000

\* LOW REACH + NOT PROTECTED -> DECREASE
decreaseRule(ch, isProtected) ==
    ~isProtected /\ ch.brandAReach > 0 /\ ch.brandAReach < 150
        /\ ch.indexVsCompetition > 1200

\* DEFAULT -> MAINTAIN
defaultRule(ch) == ch.brandAReach > 0

\* One iteration of the loop body: the first matching rule decides.  The
\* reason strings are kept by their kind; their formatted numbers are not modelled.
optimizeChannel(ch, isProtected, gapThreshold, indexThreshold) ==
    IF skipRule(ch) THEN NoEntry
    ELSE IF addRule(ch)
        THEN OptimizationResult(ch, "ADD", addPriority(ch), "Competitor, Share")
    ELSE IF increaseRule(ch, gapThreshold, indexThreshold)
        THEN OptimizationResult(ch, "INCREASE", increasePriority(ch), "Gap, Index")
    ELSE IF maintainRule(ch, isProtected)
        THEN OptimizationResult(ch, "MAINTAIN", "LOW",
                 IF isProtected THEN "Top - protected" ELSE "Leading competition")
    ELSE IF decreaseRule(ch, isProtected)
        THEN OptimizationResult(ch, "DECREASE", "LOW", "Low reach, reallocate budget")
    ELSE IF defaultRule(ch)
        THEN OptimizationResult(ch, "MAINTAIN", "LOW", "Stable performance")
    ELSE NoEntry

\* for (const ch of channels) { ... results.set(ch.channel, ...) ... }: the map
\* holds, for every name some iteration has set, the value of the last iteration
\* that set it
runOptimization(chs, i, t) ==
    LET protectedChannels_ == getProtectedChannels(chs, t)
        gapThreshold == gapThresholdOf(i)
        indexThreshold == indexThresholdOf(i)
        outcome(k) == optimizeChannel(chs[k],
                                      Includes(protectedChannels_, chs[k].channel),
                                      gapThreshold, indexThreshold)
        setters(n) == { k \in DOMAIN chs : chs[k].channel = n /\ outcome(k) # NoEntry }
        lastSetter(n) == CHOOSE k \in setters(n) : \A m \in setters(n) : m <= k
    IN  [n \in { chs[k].channel : k \in { j \in DOMAIN chs : outcome(j) # NoEntry } }
           |-> outcome(lastSetter(n))]

(***************************************************************************)
(* Timeband utilities (timebandOptimization.ts, timebandProcessor.ts).     *)
(* A timeband's brandAReach, maxCompReach, gap and brandAOTS are in tenths *)
(* of a point (2.0 is 20); atcIndex is in index points.  Scores are exact  *)
(* rationals [num, den] with den > 0, in lowest terms.                     *)
(***************************************************************************)
TIMEBAND_LABELS == <<"NPT", "NCPT_EARLY", "CPT", "NCPT_LATE">>

\* ATC_DAYPART_FACTORS_V2, in tenths
ATC_DAYPART_FACTORS_V2 ==
    [NPT |-> 7, NCPT_EARLY |-> 12, CPT |-> 15, NCPT_LATE |-> 11]

\* DAYPART_CATEGORIES_V2[timeband].isPrime
isPrime(timeband) == timeband # "NPT"

\* an optional value (number | undefined) is a sequence of at most one element
Undefined == << >>
Some(v) == <<v>>

\* calculateTimebandATCIndex: reach * factor * 100, with reach and factor in tenths
calculateTimebandATCIndex(reach, timeband) == reach * ATC_DAYPART_FACTORS_V2[timeband]

\* a TimebandMetrics record as parseTimebandData / generateSampleTimebandData build
\* it for a market: gap from the reaches, atcIndex for Karnataka only
TimebandMetrics(m, timeband, reach, comp, ots) ==
    [timeband |-> timeband, brandAReach |-> reach, brandAOTS |-> ots,
     maxCompReach |-> comp, gap |-> reach - comp, isPrimetime |-> isPrime(timeband),
     atcIndex |-> IF m = "Karnataka"
                  THEN Some(calculateTimebandATCIndex(reach, timeband))
                  ELSE Undefined]

RECURSIVE GCD(_, _)
GCD(a, b) == IF b = 0 THEN a ELSE GCD(b, a % b)

Rat(n, d) == LET g == GCD(n, d) IN [num |-> n \div g, den |-> d \div g]
RatAdd(a, b) == Rat(a.num * b.den + b.num * a.den, a.den * b.den)
RatMul(a, b) == Rat(a.num * b.num, a.den * b.den)
RatDiv(a, b) == Rat(a.num * b.den, a.den * b.num)
RatLess(a, b) == a.num * b.den < b.num * a.den
RatMax(a, b) == IF RatLess(a, b) THEN b ELSE a
RatMin(a, b) == IF RatLess(b, a) THEN b ELSE a

\* Math.max(...values, floor) over a list of rationals
RECURSIVE MaxOf(_, _)
MaxOf(values, floor) ==
    IF values = << >> THEN floor
    ELSE RatMax(Head(values), MaxOf(Tail(values), floor))

\* tb.brandAOTS > 0 ? tb.brandAReach / tb.brandAOTS : 0
efficiencyOf(tb) == IF tb.brandAOTS > 0 THEN Rat(tb.brandAReach, tb.brandAOTS) ELSE Rat(0, 1)

\* rawScore >= 70 ? 'PRIORITY' : rawScore >= 40 ? 'MAINTAIN' : 'REDUCE'
scoreRecommendation(rawScore) ==
    IF ~RatLess(rawScore, Rat(70, 1)) THEN "PRIORITY"
    ELSE IF ~RatLess(rawScore, Rat(40, 1)) THEN "MAINTAIN" ELSE "REDUCE"

\* 4. ATC SCORE: (timeband.atcIndex / 100) * 15, Karnataka only
atcScoreOf(timeband, m) ==
    IF m = "Karnataka" /\ timeband.atcIndex # Undefined
    THEN Some(Rat(timeband.atcIndex[1] * 15, 100)) ELSE Undefined

\* 2. COMPETITIVE SCORE: Math.min(competitiveIndex / 150, 1) * 25
competitiveScoreOf(timeband) ==
    LET competitiveIndex == IF timeband.maxCompReach > 0
                            THEN Rat(timeband.brandAReach * 100, timeband.maxCompReach)
                            ELSE Rat(150, 1)
    IN  RatMul(RatMin(RatDiv(competitiveIndex, Rat(150, 1)), Rat(1, 1)), Rat(25, 1))

calculateTimebandOptimizationScore(timeband, allTimebands, m) ==
    LET \* 0.01 of a point is 1/10 of a tenth
        maxReach == MaxOf([k \in DOMAIN allTimebands |->
                              Rat(allTimebands[k].brandAReach, 1)], Rat(1, 10))
        reachScore == RatMul(RatDiv(Rat(timeband.brandAReach, 1), maxReach), Rat(40, 1))
        competitiveScore == competitiveScoreOf(timeband)
        efficiency == efficiencyOf(timeband)
        maxEfficiency == MaxOf([k \in DOMAIN allTimebands |->
                                   efficiencyOf(allTimebands[k])], Rat(1, 100))
        efficiencyScore == RatMul(RatDiv(efficiency, maxEfficiency), Rat(20, 1))
        atcScore == atcScoreOf(timeband, m)
        rawScore == RatAdd(RatAdd(RatAdd(reachScore, competitiveScore), efficiencyScore),
                           IF atcScore = Undefined THEN Rat(0, 1) ELSE atcScore[1])
    IN  [timeband |-> timeband.timeband,
         rawScore |-> rawScore,
         components |-> [reachScore |-> reachScore,
                         competitiveScore |-> competitiveScore,
                         efficiencyScore |-> efficiencyScore,
                         atcScore |-> atcScore],
         recommendation |-> scoreRecommendation(rawScore)]

\* [...scoredTimebands].sort((a, b) => b.rawScore - a.rawScore): descending and stable
sortByScoreDesc(scored) ==
    LET n == Len(scored)
        before(i) == Cardinality({ j \in 1..n :
                        \/ RatLess(scored[i].rawScore, scored[j].rawScore)
                        \/ scored[j].rawScore = scored[i].rawScore /\ j < i })
    IN  [k \in 1..n |-> scored[CHOOSE i \in 1..n : before(i) = k - 1]]

\* timebands.map(tb => calculateTimebandOptimizationScore(tb, timebands, market))
RECURSIVE scoreEach(_, _, _)
scoreEach(tbs, allTimebands, m) ==
    IF tbs = << >> THEN << >>
    ELSE <<calculateTimebandOptimizationScore(Head(tbs), allTimebands, m)>>
             \o scoreEach(Tail(tbs), allTimebands, m)

rankTimebandsByScore(tbs, m) ==
    IF Len(tbs) = 0 THEN << >>
    ELSE LET scoredTimebands == scoreEach(tbs, tbs, m)
             sorted == sortByScoreDesc(scoredTimebands)
         IN  [k \in DOMAIN sorted |->
                [timeband |-> sorted[k].timeband,
                 rawScore |-> sorted[k].rawScore,
                 components |-> sorted[k].components,
                 recommendation |-> sorted[k].recommendation,
                 rank |-> k]]

\* the timeband gap threshold with the ladder reversed
timebandGapThresholdReversed(i) == IF i <= 10 THEN -10 ELSE IF i <= 20 THEN -20 ELSE -30

\* intensity <= 10 ? -3 : intensity <= 20 ? -2 : -1
timebandGapThreshold(i) == IF i <= 10 THEN -30 ELSE IF i <= 20 THEN -20 ELSE -10
\* intensity <= 10 ? 50 : intensity <= 20 ? 60 : 70
scoreThresholdOf(i) == IF i <= 10 THEN 50 ELSE IF i <= 20 THEN 60 ELSE 70

\* rankedTimebands.find(r => r.timeband === tb.timeband)
findScored(rankedTimebands, timeband) ==
    IF \E k \in DOMAIN rankedTimebands : rankedTimebands[k].timeband = timeband
    THEN Some(rankedTimebands[CHOOSE k \in DOMAIN rankedTimebands :
            /\ rankedTimebands[k].timeband = timeband
            /\ \A j \in 1..(k - 1) : rankedTimebands[j].timeband # timeband])
    ELSE Undefined

\* the body of the loop for one timeband with its score: the first matching rule
recommendTimeband(channelName, tb, scored, gapThreshold, scoreThreshold) ==
    LET rec(recommendation, priority) ==
            [channel |-> channelName, timeband |-> tb.timeband,
             currentReach |-> tb.brandAReach, recommendation |-> recommendation,
             priority |-> priority, score |-> scored.rawScore]
    IN  IF tb.brandAReach = 0 /\ tb.maxCompReach >= 20
        THEN rec("ADD", IF tb.maxCompReach > 50 THEN "HIGH"
                        ELSE IF tb.maxCompReach > 30 THEN "MEDIUM" ELSE "LOW")
        ELSE IF tb.gap < gapThreshold
                  /\ ~RatLess(scored.rawScore, Rat(scoreThreshold, 1))
        THEN rec("INCREASE", IF tb.gap < -50 THEN "HIGH"
                             ELSE IF tb.gap < -20 THEN "MEDIUM" ELSE "LOW")
        ELSE IF scored.rank <= 3 \/ tb.gap >= 0
        THEN rec("MAINTAIN", "LOW")
        ELSE IF RatLess(scored.rawScore, Rat(30, 1)) /\ tb.brandAReach < 10
                  /\ ~tb.isPrimetime
        THEN rec("DECREASE", "LOW")
        ELSE rec("MAINTAIN", "LOW")

\* the loop pushes one recommendation for every timeband that has a score
generateTimebandRecommendations(channelName, tbs, m, i) ==
    IF Len(tbs) = 0 THEN << >>
    ELSE LET rankedTimebands == rankTimebandsByScore(tbs, m)
             gapThreshold == timebandGapThreshold(i)
             scoreThreshold == scoreThresholdOf(i)
             hasScore(tb) == findScored(rankedTimebands, tb.timeband) # Undefined
             kept == SelectSeq(tbs, hasScore)
         IN  [k \in DOMAIN kept |->
                recommendTimeband(channelName, kept[k],
                                  findScored(rankedTimebands, kept[k].timeband)[1],
                                  gapThreshold, scoreThreshold)]

\* the measurements of one timeband the model draws its lists from:
\* <<brandAReach, maxCompReach, brandAOTS>>
BandValues ==
    { <<0, 0, 0>>, <<0, 20, 0>>, <<0, 60, 0>>, <<5, 90, 10>>, <<30, 50, 0>>,
      <<50, 90, 10>>, <<60, 0, 20>>, <<60, 40, 10>> }

Markets == {"UP", "Karnataka"}

\* the four bands of a channel in the order of TIMEBAND_LABELS, and the empty list
TimebandLists(m) ==
    { [k \in 1..4 |-> TimebandMetrics(m, TIMEBAND_LABELS[k], f[k][1], f[k][2], f[k][3])] :
        f \in [1..4 -> BandValues] } \cup { << >> }

(***************************************************************************)
(* Simplified planner insights (channelLanguageFilter.ts).  Gaps are in    *)
(* tenths of a point, estimatedUplift in hundredths.                       *)
(***************************************************************************)
Abs(x) == IF x < 0 THEN -x ELSE x

\* timebands.reduce((sum, tb) => sum + tb.brandAReach, 0)
RECURSIVE sumReach(_)
sumReach(tbs) == IF tbs = << >> THEN 0 ELSE Head(tbs).brandAReach + sumReach(Tail(tbs))

isPrimeSlot(tb) == tb.timeband \in {"NCPT_EARLY", "CPT", "NCPT_LATE"}

\* (primeReach / totalReach) * 100, 0 when the total reach is 0
calculatePrimeTimeFocus(tbs) ==
    LET totalReach == sumReach(tbs)
    IN  IF totalReach = 0 THEN Rat(0, 1)
        ELSE Rat(sumReach(SelectSeq(tbs, isPrimeSlot)) * 100, totalReach)

isVulnerable(tb) == tb.gap < -20

RECURSIVE sumAbsGap(_)
sumAbsGap(tbs) == IF tbs = << >> THEN 0 ELSE Abs(Head(tbs).gap) + sumAbsGap(Tail(tbs))

\* Math.round(Math.min(100, totalVulnerableGap * 10)): a total of g tenths of a
\* point scores g
calculateOpportunityScore(tbs) ==
    LET vulnerableBands == SelectSeq(tbs, isVulnerable)
        totalVulnerableGap == sumAbsGap(vulnerableBands)
    IN  IF Len(vulnerableBands) = 0 THEN 0
        ELSE IF totalVulnerableGap < 100 THEN totalVulnerableGap ELSE 100

\* the loop over the timebands: the index of the first band with the smallest
\* negative gap (0 when no gap is negative)
worstBandOf(tbs) ==
    IF \E k \in DOMAIN tbs : tbs[k].gap < 0
    THEN CHOOSE k \in DOMAIN tbs :
            /\ tbs[k].gap < 0
            /\ \A j \in DOMAIN tbs : tbs[k].gap <= tbs[j].gap
            /\ \A j \in 1..(k - 1) : tbs[j].gap > tbs[k].gap
    ELSE 0

isStrong(tb) == tb.gap > 50

\* strongBands.sort((a, b) => b.gap - a.gap)[0]: the first band of the largest gap
bestStrongBand(strongBands) ==
    strongBands[CHOOSE k \in DOMAIN strongBands :
        /\ \A j \in DOMAIN strongBands : strongBands[j].gap <= strongBands[k].gap
        /\ \A j \in 1..(k - 1) : strongBands[j].gap < strongBands[k].gap]

\* the priority ladder with the LOW step at |worstGap| <= 2
investPriorityInclusiveLow(timeband, worstGap) ==
    IF timeband = "CPT" /\ worstGap < -50 THEN "HIGH"
    ELSE IF Abs(worstGap) > 50 THEN "HIGH"
    ELSE IF Abs(worstGap) <= 20 THEN "LOW"
    ELSE "MEDIUM"

investPriority(timeband, worstGap) ==
    IF timeband = "CPT" /\ worstGap < -50 THEN "HIGH"
    ELSE IF Abs(worstGap) > 50 THEN "HIGH"
    ELSE IF Abs(worstGap) < 20 THEN "LOW"
    ELSE "MEDIUM"

\* null is Undefined, an action is Some(action)
findTopAction(tbs) ==
    LET worst == worstBandOf(tbs)
        worstGap == IF worst = 0 THEN 0 ELSE tbs[worst].gap
        strongBands == SelectSeq(tbs, isStrong)
    IN  IF worst = 0 \/ worstGap > -10
        THEN IF Len(strongBands) > 0
             THEN Some([priority |-> "LOW",
                        timeband |-> bestStrongBand(strongBands).timeband,
                        action |-> "MAINTAIN",
                        estimatedUplift |-> 0])
             ELSE Undefined
        ELSE Some([priority |-> investPriority(tbs[worst].timeband, worstGap),
                   timeband |-> tbs[worst].timeband,
                   action |-> "INVEST",
                   estimatedUplift |-> Abs(worstGap) * 4])

getEmptySimplifiedInsights ==
    [primeTimeFocus |-> Rat(0, 1), opportunityScore |-> 0,
     topActionPriority |-> "NONE", topAction |-> Undefined]

generateSimplifiedInsights(tbs) ==
    IF Len(tbs) = 0 THEN getEmptySimplifiedInsights
    ELSE LET topAction == findTopAction(tbs)
         IN  [primeTimeFocus |-> calculatePrimeTimeFocus(tbs),
              opportunityScore |-> calculateOpportunityScore(tbs),
              topActionPriority |-> IF topAction = Undefined THEN "NONE"
                                    ELSE topAction[1].priority,
              topAction |-> IF topAction = Undefined THEN Undefined
                            ELSE Some([timeband |-> topAction[1].timeband,
                                       action |-> topAction[1].action,
                                       estimatedUplift |-> topAction[1].estimatedUplift])]

\* <<brandAReach, maxCompReach>> of the bands the insights are computed for: gaps
\* 0, -0.5, -1.0, -1.5, -2.0, -5.0, -5.1, +5.0, +5.1, +6.0
InsightBandValues ==
    { <<0, 0>>, <<5, 10>>, <<0, 10>>, <<5, 20>>, <<40, 60>>, <<10, 60>>, <<9, 60>>,
      <<60, 10>>, <<61, 10>>, <<60, 0>> }

InsightLists ==
    { [k \in 1..4 |-> TimebandMetrics("UP", TIMEBAND_LABELS[k], f[k][1], f[k][2], 10)] :
        f \in [1..4 -> InsightBandValues] } \cup { << >> }

(***************************************************************************)
(* Cross-geography timeband analysis (crossGeoAnalysis.ts).  Reach is in   *)
(* tenths of a point.                                                      *)
(***************************************************************************)
timebandNames ==
    <<"02:00-05:00", "05:00-08:00", "08:00-11:00", "11:00-14:00",
      "14:00-17:00", "17:00-20:00", "20:00-23:00", "23:00-26:00">>

MarketOrder == <<"UP", "Maharashtra", "Karnataka">>

\* Array.prototype.find, given the elements satisfying the test in list order:
\* the first one, or undefined
find(hits) == IF hits = << >> THEN Undefined ELSE Some(hits[1])

\* timebandData?.brandAReach || 0 of the named channel's named timeband
getTimebandReach(chs, channelName, timeband) ==
    LET channel == find(SelectSeq(chs, LAMBDA ch : ch.channel = channelName))
    IN  IF channel = Undefined \/ channel[1].timebands = Undefined THEN 0
        ELSE LET timebandData ==
                     find(SelectSeq(channel[1].timebands[1],
                                    LAMBDA tb : tb.timeband = timeband))
             IN  IF timebandData = Undefined THEN 0 ELSE timebandData[1].brandAReach

\* the second comparison reads upReach, not the running maximum
bestMarketOfStaleMax(upReach, mahReach, karReach) ==
    IF karReach > upReach THEN "Karnataka"
    ELSE IF mahReach > upReach THEN "Maharashtra" ELSE "UP"

\* bestMarket: maxValue starts at upReach and follows mahReach when that is larger
bestMarketOf(upReach, mahReach, karReach) ==
    LET maxValue == IF mahReach > upReach THEN mahReach ELSE upReach
    IN  IF karReach > maxValue THEN "Karnataka"
        ELSE IF mahReach > upReach THEN "Maharashtra" ELSE "UP"

\* worstMarket: minValue starts at upReach and follows mahReach when that is smaller
worstMarketOf(upReach, mahReach, karReach) ==
    LET minValue == IF mahReach < upReach THEN mahReach ELSE upReach
    IN  IF karReach < minValue THEN "Karnataka"
        ELSE IF mahReach < upReach THEN "Maharashtra" ELSE "UP"

\* Math.sqrt(x) is kept as the number whose square is x
Sqrt(x) == [squared |-> x]

\* the population variance sum((v - avg)^2) / 3 of three values, avg = sum(v) / 3
meanSquareDeviation(a, b, c) ==
    Rat(3 * (a * a + b * b + c * c) - (a + b + c) * (a + b + c), 9)

\* one element of the map over timebandNames
compareTimeband(channelName, data, tbName) ==
    LET upReach  == getTimebandReach(data.UP, channelName, tbName)
        mahReach == getTimebandReach(data.Maharashtra, channelName, tbName)
        karReach == getTimebandReach(data.Karnataka, channelName, tbName)
    IN  [timeband |-> tbName,
         markets |-> [UP |-> upReach, Maharashtra |-> mahReach, Karnataka |-> karReach],
         bestPerformingMarket  |-> bestMarketOf(upReach, mahReach, karReach),
         worstPerformingMarket |-> worstMarketOf(upReach, mahReach, karReach),
         variance |-> Sqrt(meanSquareDeviation(upReach, mahReach, karReach))]

compareTimebandAcrossGeographies(channelName, data) ==
    [k \in 1..Len(timebandNames) |-> compareTimeband(channelName, data, timebandNames[k])]

\* a channel of a market's list: its name and its optional timeband list
\* (the comparison reads no other field, and no atcIndex)
GeoChannel(name, tbs) == [channel |-> name, timebands |-> tbs]

\* <<reach 17:00-20:00, reach 20:00-23:00>> of the channel in one market
GeoReachValues == { <<20, 50>>, <<50, 20>>, <<20, 20>>, <<0, 50>> }

\* the channel lists of one market: no channel, another channel only, the channel
\* without timebands, with a 4-band list (labels that are not in timebandNames),
\* and with clock-named bands behind another channel
MarketLists ==
    { << >>,
      << GeoChannel("other", Some(<< TimebandMetrics("UP", "20:00-23:00", 90, 0, 10) >>)) >>,
      << GeoChannel("channel", Undefined) >>,
      << GeoChannel("channel", Some(<< TimebandMetrics("UP", "CPT", 90, 0, 10) >>)) >> }
    \cup
    { << GeoChannel("other", Undefined),
         GeoChannel("channel", Some(<< TimebandMetrics("UP", "17:00-20:00", v[1], 0, 10),
                                       TimebandMetrics("UP", "20:00-23:00", v[2], 0, 10) >>)) >> :
        v \in GeoReachValues }

(***************************************************************************)
(* District scaling (channelLanguageFilter.ts).  Percentages of a district *)
(* and its cdmiScore are in hundredths (0.65 is 65); channel-level reach,  *)
(* share and gap are in hundredths of a point, indexVsCompetition in       *)
(* tenths; the values of a region's timebands are exact rationals of a     *)
(* point, those of a district's timebands hundredths.  Factors are exact   *)
(* rationals.  Products that do not fit 32 bits are computed on wide       *)
(* naturals: sequences of limbs of 15 bits, least significant first.       *)
(***************************************************************************)
WideBase == 2^15

RECURSIVE carry(_, _, _)
\* the limbs of x from position k on, with carry c propagated into them
carry(x, k, c) ==
    IF k > Len(x)
    THEN IF c = 0 THEN << >> ELSE <<c % WideBase>> \o carry(x, k, c \div WideBase)
    ELSE <<(x[k] + c) % WideBase>> \o carry(x, k + 1, (x[k] + c) \div WideBase)

\* the wide natural of an integer 0 <= n < 2^31
Wide(n) == carry(<<n>>, 1, 0)

limb(x, k) == IF k <= Len(x) THEN x[k] ELSE 0

WideAdd(x, y) ==
    LET n == IF Len(x) > Len(y) THEN Len(x) ELSE Len(y)
    IN  carry([k \in 1..n |-> limb(x, k) + limb(y, k)], 1, 0)

\* x * k for 0 <= k < 2^15
WideScale(x, k) == carry([i \in 1..Len(x) |-> x[i] * k], 1, 0)

isZeroWide(x) == \A k \in 1..Len(x) : x[k] = 0

\* x * n for 0 <= n < 2^30
WideTimes(x, n) ==
    IF n = 0 \/ isZeroWide(x) THEN <<0>>
    ELSE WideAdd(WideScale(x, n % WideBase), <<0>> \o WideScale(x, n \div WideBase))

WideLess(x, y) ==
    LET n == IF Len(x) > Len(y) THEN Len(x) ELSE Len(y)
        differ == { k \in 1..n : limb(x, k) # limb(y, k) }
    IN  /\ differ # {}
        /\ LET top == CHOOSE k \in differ : \A j \in differ : j <= k
           IN  limb(x, top) < limb(y, top)

\* a <= b for rationals a, b >= 0, by cross multiplication on wide naturals
leqNonNegative(a, b) ==
    ~ WideLess(WideTimes(Wide(b.num), a.den), WideTimes(Wide(a.num), b.den))

\* a <= b for rationals of either sign
RatLeq(a, b) ==
    IF a.num < 0
    THEN b.num >= 0 \/ leqNonNegative([b EXCEPT !.num = 0 - b.num], [a EXCEPT !.num = 0 - a.num])
    ELSE b.num >= 0 /\ leqNonNegative(a, b)

\* a + b with the least common denominator
RatSum(a, b) ==
    LET g == GCD(a.den, b.den)
    IN  Rat(a.num * (b.den \div g) + b.num * (a.den \div g), a.den * (b.den \div g))

RatOf(n) == [num |-> n, den |-> 1]
RatNeg(a) == [num |-> 0 - a.num, den |-> a.den]

\* a rational with wide numerator and denominator
WideRat(a) == [num |-> Wide(a.num), den |-> Wide(a.den)]
WideRatTimes(w, a) == [num |-> WideTimes(w.num, a.num), den |-> WideTimes(w.den, a.den)]

\* the bits of the largest quotient: a value below 2621.44 points
QuotientBits == 18

RECURSIVE quotientFrom(_, _, _, _)
\* the largest q' = q + (bits below 2^bit) with q' * d <= n; q' < 2^QuotientBits
quotientFrom(n, d, q, bit) ==
    IF bit = 0 THEN q
    ELSE LET c == q + 2^(bit - 1)
         IN  IF c < 2^QuotientBits /\ ~ WideLess(n, WideTimes(d, c))
             THEN quotientFrom(n, d, c, bit - 1)
             ELSE quotientFrom(n, d, q, bit - 1)

\* +(x).toFixed(0) of the wide rational x >= 0: x rounded to the nearest
\* integer, half up: floor((2 num + den) / (2 den))
WideRound(w) ==
    quotientFrom(WideAdd(WideScale(w.num, 2), w.den), WideScale(w.den, 2), 0, QuotientBits)

(***************************************************************************)
(* simpleHash: hash = ((hash << 5) - hash) + char, cut to a signed 32-bit  *)
(* integer after every character; Math.abs of the result.  A string is the *)
(* sequence of its UTF-16 code units; the 32-bit value is kept as two      *)
(* halves of 16 bits <<high, low>>.                                        *)
(***************************************************************************)
Half == 2^16

\* the UTF-16 code units of the strings of the model
CodeUnits ==
    ("Lucknow" :> <<76, 117, 99, 107, 110, 111, 119>>)
    @@ ("Shravasti" :> <<83, 104, 114, 97, 118, 97, 115, 116, 105>>)
    @@ ("Dangal" :> <<68, 97, 110, 103, 97, 108>>)
    @@ ("B4U Movies" :> <<66, 52, 85, 32, 77, 111, 118, 105, 101, 115>>)
    @@ ("Aaj Tak" :> <<65, 97, 106, 32, 84, 97, 107>>)
    @@ ("Zee Anmol" :> <<90, 101, 101, 32, 65, 110, 109, 111, 108>>)
    @@ ("presence_" :> <<112, 114, 101, 115, 101, 110, 99, 101, 95>>)
    @@ ("_" :> <<95>>)
    @@ ("_comp1" :> <<95, 99, 111, 109, 112, 49>>)
    @@ ("_comp2" :> <<95, 99, 111, 109, 112, 50>>)
    @@ ("" :> <<>>)

\* one character: hash = ((hash << 5) - hash) + char; hash = hash & hash
hashStep(hash, char) ==
    LET low == hash[2] * 31 + char
    IN  <<(hash[1] * 31 + low \div Half) % Half, low % Half>>

RECURSIVE hashOver(_, _, _, _)
\* the loop over the characters str[lo..hi], from left to right, starting from
\* hash; the hash after the left part is a 32-bit value when the loop goes on
hashOver(str, lo, hi, hash) ==
    IF lo > hi THEN hash
    ELSE IF lo = hi THEN hashStep(hash, str[lo])
    ELSE LET mid == (lo + hi) \div 2
             left == hashOver(str, lo, mid, hash)
         IN  CASE left[1] < Half /\ left[2] < Half -> hashOver(str, mid + 1, hi, left)

\* Math.abs of the signed 32-bit value <<high, low>>: 2^32 minus it when negative
absInt32(hash) ==
    IF hash[1] < Half \div 2 THEN hash
    ELSE <<Half - hash[1] - (IF hash[2] = 0 THEN 0 ELSE 1), (Half - hash[2]) % Half>>

simpleHash(str) == absInt32(hashOver(str, 1, Len(str), <<0, 0>>))

\* simpleHash(str) % 10000
seedOf(str) == ((simpleHash(str)[1] % 10000) * (Half % 10000) + simpleHash(str)[2]) % 10000

(***************************************************************************)
(* Numbers of the district scaling: exact rationals; NaN is 0/0.           *)
(***************************************************************************)
NaN == [num |-> 0, den |-> 0]
isNaN(a) == a.den = 0

\* a / n for an integer n >= 0: 0/0 is NaN
RatQuot(a, n) == IF n = 0 THEN NaN ELSE Rat(a.num, a.den * n)

\* a DistrictRecord: the fields the scaling reads, percentages in hundredths
DistrictRecord(name, urban, literacy, tvOwnership, electrification, internet, cdmi) ==
    [district |-> name, urbanPct |-> Rat(urban, 100), literacyPct |-> Rat(literacy, 100),
     tvOwnershipPct |-> Rat(tvOwnership, 100),
     electrificationPct |-> Rat(electrification, 100),
     internetPct |-> Rat(internet, 100), cdmiScore |-> Rat(cdmi, 100)]

RECURSIVE sumCdmi(_)
\* serDistricts.reduce((sum, d) => sum + d.cdmiScore, 0)
sumCdmi(ds) == IF ds = << >> THEN RatOf(0) ELSE RatSum(Head(ds).cdmiScore, sumCdmi(Tail(ds)))

\* Layer 1: 1 + (cdmiScore - serAvgCdmi) * 0.6, clamped to [0.5, 1.5]
getBaseCdmiFactor(d, ds) ==
    LET serAvgCdmi == RatQuot(sumCdmi(ds), Len(ds))
    IN  IF isNaN(serAvgCdmi) THEN NaN
        ELSE LET diff == RatSum(d.cdmiScore, RatNeg(serAvgCdmi))
                 baseFactor == RatSum(RatOf(1), RatMul(diff, Rat(6, 10)))
             IN  IF RatLess(baseFactor, Rat(1, 2)) THEN Rat(1, 2)
                 ELSE IF RatLess(Rat(3, 2), baseFactor) THEN Rat(3, 2) ELSE baseFactor

GENRE_CATEGORY ==
    ("News" :> "News") @@ ("Hindi News" :> "News") @@ ("English News" :> "English")
    @@ ("Business News" :> "English") @@ ("English Entertainment" :> "English")
    @@ ("English Movies" :> "English") @@ ("Devotional" :> "Devotional")
    @@ ("Bhojpuri" :> "Regional") @@ ("Punjabi" :> "Regional")
    @@ ("Regional" :> "Regional") @@ ("Kids" :> "Kids") @@ ("Hindi Movies" :> "Movies")
    @@ ("Movies" :> "Movies") @@ ("Hindi GEC" :> "GEC") @@ ("GEC" :> "GEC")
    @@ ("Entertainment" :> "GEC") @@ ("Comedy" :> "GEC") @@ ("Music" :> "Music")
    @@ ("Sports" :> "Sports") @@ ("Infotainment" :> "Infotainment")
    @@ ("Lifestyle" :> "Infotainment") @@ ("Reality" :> "GEC")

\* 1 + (a - b) * coefficient, coefficient in hundredths
skew(a, b, coefficient) ==
    RatSum(RatOf(1), RatMul(RatSum(a, RatNeg(b)), Rat(coefficient, 100)))

\* the GEC skew taken on both sides of the 0.15 baseline, like the other genres
getGenreAffinitySymmetric(genre, urbanPct, literacyPct) ==
    LET category == IF genre \in DOMAIN GENRE_CATEGORY THEN GENRE_CATEGORY[genre] ELSE "GEC"
        base == Rat(15, 100)
        affinity ==
            CASE category = "News" -> skew(urbanPct, base, 65)
              [] category = "English" -> skew(urbanPct, base, 75)
              [] category = "Devotional" -> skew(base, urbanPct, 50)
              [] category = "Regional" -> skew(base, urbanPct, 40)
              [] category = "Kids" ->
                     RatSum(skew(urbanPct, base, 35),
                            RatMul(RatSum(literacyPct, RatNeg(Rat(60, 100))), Rat(15, 100)))
              [] category = "Movies" -> skew(urbanPct, base, 30)
              [] category = "Music" -> skew(urbanPct, base, 30)
              [] category = "Sports" -> skew(urbanPct, base, 40)
              [] category = "Infotainment" -> skew(urbanPct, base, 45)
              [] OTHER -> skew(base, urbanPct, 70)
    IN  IF RatLess(affinity, Rat(75, 100)) THEN Rat(75, 100)
        ELSE IF RatLess(Rat(135, 100), affinity) THEN Rat(135, 100) ELSE affinity

\* Layer 2: the genre's urban or rural skew, clamped to [0.75, 1.35]
getGenreAffinity(genre, urbanPct, literacyPct) ==
    LET category == IF genre \in DOMAIN GENRE_CATEGORY THEN GENRE_CATEGORY[genre] ELSE "GEC"
        base == Rat(15, 100)
        affinity ==
            CASE category = "News" -> skew(urbanPct, base, 65)
              [] category = "English" -> skew(urbanPct, base, 75)
              [] category = "Devotional" -> skew(base, urbanPct, 50)
              [] category = "Regional" -> skew(base, urbanPct, 40)
              [] category = "Kids" ->
                     RatSum(skew(urbanPct, base, 35),
                            RatMul(RatSum(literacyPct, RatNeg(Rat(60, 100))), Rat(15, 100)))
              [] category = "Movies" -> skew(urbanPct, base, 30)
              [] category = "Music" -> skew(urbanPct, base, 30)
              [] category = "Sports" -> skew(urbanPct, base, 40)
              [] category = "Infotainment" -> skew(urbanPct, base, 45)
              [] OTHER -> IF RatLess(urbanPct, Rat(20, 100))
                          THEN skew(Rat(20, 100), urbanPct, 70)
                          ELSE RatOf(1)
    IN  IF RatLess(affinity, Rat(75, 100)) THEN Rat(75, 100)
        ELSE IF RatLess(Rat(135, 100), affinity) THEN Rat(135, 100) ELSE affinity

\* maxInSer > 0 ? value / maxInSer : 0
strengthOf(value, maxInSer) ==
    IF RatLess(RatOf(0), maxInSer) THEN RatDiv(value, maxInSer) ELSE RatOf(0)

\* (seed / 10000) - 0.5
seedOffset(str) == RatSum(Rat(seedOf(str), 10000), Rat(-1, 2))

\* a jitter whose seed is taken from a counter of the calls made so far
getChannelJitterCounting(districtName, channelName, channelShare, maxShareInSer, suffix) ==
    LET sizeStability == strengthOf(channelShare, maxShareInSer)
        varianceRange == RatMul(RatSum(RatOf(1), RatNeg(sizeStability)), Rat(8, 100))
        seed == (Len(jitterCalls) * 2500) % 10000
    IN  RatMul(RatMul(RatSum(Rat(seed, 10000), Rat(-1, 2)), RatOf(2)), varianceRange)

\* Layer 3 + 4: ((seed / 10000) - 0.5) * 2 * (1 - sizeStability) * 0.08
getChannelJitter(districtName, channelName, channelShare, maxShareInSer, suffix) ==
    LET sizeStability == strengthOf(channelShare, maxShareInSer)
        varianceRange == RatMul(RatSum(RatOf(1), RatNeg(sizeStability)), Rat(8, 100))
        seed == CodeUnits[districtName] \o CodeUnits["_"] \o CodeUnits[channelName]
                    \o CodeUnits[suffix]
    IN  RatMul(RatMul(seedOffset(seed), RatOf(2)), varianceRange)

\* Layer 5: the weight of a timeband, urbanShift = (urbanPct - 0.15) * 0.15
getTimebandUrbanShift(timeband, urbanPct) ==
    LET urbanShift == RatMul(RatSum(urbanPct, RatNeg(Rat(15, 100))), Rat(15, 100))
    IN  CASE timeband = "NPT" -> RatSum(RatOf(1), RatNeg(RatMul(urbanShift, Rat(4, 10))))
          [] timeband = "NCPT_EARLY" -> RatSum(RatOf(1), RatMul(urbanShift, Rat(1, 10)))
          [] timeband = "CPT" -> RatOf(1)
          [] timeband = "NCPT_LATE" -> RatSum(RatOf(1), RatMul(urbanShift, Rat(5, 10)))
          [] OTHER -> RatOf(1)

\* district.urbanPct * 0.35 + tvOwnershipPct * 0.30 + electrificationPct * 0.20
\* + internetPct * 0.15
districtAccessOf(d) ==
    RatSum(RatSum(RatMul(d.urbanPct, Rat(35, 100)), RatMul(d.tvOwnershipPct, Rat(30, 100))),
           RatSum(RatMul(d.electrificationPct, Rat(20, 100)),
                  RatMul(d.internetPct, Rat(15, 100))))

\* reachStrength * 0.7 + shareStrength * 0.3
channelStrengthOf(brandAReach, maxReachInSer, channelShare, maxShareInSer) ==
    RatSum(RatMul(strengthOf(brandAReach, maxReachInSer), Rat(7, 10)),
           RatMul(strengthOf(channelShare, maxShareInSer), Rat(3, 10)))

\* the access term is subtracted
presenceScoreLessAccess(channelStrength, districtAccess) ==
    RatSum(RatMul(channelStrength, Rat(55, 100)), RatNeg(RatMul(districtAccess, Rat(45, 100))))

\* channelStrength * 0.55 + districtAccess * 0.45
presenceScoreOf(channelStrength, districtAccess) ==
    RatSum(RatMul(channelStrength, Rat(55, 100)), RatMul(districtAccess, Rat(45, 100)))

\* 0.18 + ((seed / 10000) - 0.5) * 0.08 for the seed of presence_<district>_<channel>
presenceThreshold(districtName, channelName) ==
    LET seed == CodeUnits["presence_"] \o CodeUnits[districtName] \o CodeUnits["_"]
                    \o CodeUnits[channelName]
    IN  RatSum(Rat(18, 100), RatMul(seedOffset(seed), Rat(8, 100)))

\* Layer 6: does the channel exist in the district
\* getChannelPresence without the early return for a channel of reach 0
getChannelPresenceAnyReach(districtName, channelName, brandAReach, maxReachInSer, channelShare, maxShareInSer, d) ==
    LET presenceScore ==
            presenceScoreOf(channelStrengthOf(brandAReach, maxReachInSer,
                                              channelShare, maxShareInSer),
                            districtAccessOf(d))
    IN  RatLeq(presenceThreshold(districtName, channelName), presenceScore)

getChannelPresence(districtName, channelName, brandAReach, maxReachInSer, channelShare, maxShareInSer, d) ==
    IF ~ RatLess(RatOf(0), brandAReach) THEN FALSE
    ELSE LET presenceScore ==
                 presenceScoreOf(channelStrengthOf(brandAReach, maxReachInSer,
                                                   channelShare, maxShareInSer),
                                 districtAccessOf(d))
         IN  RatLeq(presenceThreshold(districtName, channelName), presenceScore)

(***************************************************************************)
(* Channel and timeband records of the district scaling.  An optional      *)
(* property (brandDReach?: number) is a sequence of at most one element.   *)
(***************************************************************************)
\* value || 0 of an optional number: 0 for undefined, NaN and 0
orZero(opt) == IF opt = Undefined \/ isNaN(opt[1]) THEN RatOf(0) ELSE opt[1]

\* a < b; false when either is NaN
less(a, b) == ~ isNaN(a) /\ ~ isNaN(b) /\ ~ RatLeq(b, a)

\* Math.max(a, b): NaN when either is NaN
maxNumber(a, b) == IF isNaN(a) \/ isNaN(b) THEN NaN ELSE IF less(a, b) THEN b ELSE a

\* a - b
minus(a, b) == IF isNaN(a) \/ isNaN(b) THEN NaN ELSE RatSum(a, RatNeg(b))

\* +(a).toFixed(digits): a rounded to that many decimals, half away from zero.
\* No product of the inputs below is a rounding tie, so the exact rounding is
\* the rounding of the double.
toFixed(a, digits) ==
    IF isNaN(a) THEN NaN
    ELSE LET scaled == Abs(a.num) * 10^digits
             q == (2 * scaled + a.den) \div (2 * a.den)
         IN  Rat(IF a.num < 0 THEN 0 - q ELSE q, 10^digits)

\* +(w).toFixed(digits) of a wide rational w >= 0; 0/0 is NaN
toFixedWide(w, digits) ==
    IF isZeroWide(w.den) THEN NaN
    ELSE Rat(WideRound([num |-> WideTimes(w.num, 10^digits), den |-> w.den]), 10^digits)

optional(hundredths) ==
    IF hundredths = Undefined THEN Undefined ELSE Some(Rat(hundredths[1], 100))

\* a ChannelRecord of a region (UP): reaches and share in hundredths of a point,
\* maxCompReach, gap and indexVsCompetition as the data pipeline derives them
derivedSerChannel(name, genre, brandAReach, brandDReach, luxReach, maxCompReach, share, baseline) ==
    [channel |-> name, genre |-> genre, brandAReach |-> brandAReach,
     maxCompReach |-> maxCompReach, gap |-> minus(brandAReach, maxCompReach),
     channelShare |-> share, indexVsBaseline |-> baseline,
     indexVsCompetition |->
         IF less(RatOf(0), maxCompReach)
         THEN toFixed(RatMul(RatDiv(brandAReach, maxCompReach), RatOf(100)), 1)
         ELSE IF less(RatOf(0), brandAReach) THEN RatOf(999) ELSE RatOf(0),
     brandDReach |-> brandDReach, luxReach |-> luxReach,
     brandBReach |-> Undefined, brandCReach |-> Undefined,
     timebands |-> Undefined]

withMaxCompReach(name, genre, brandAReach, brandDReach, luxReach, share, baseline) ==
    derivedSerChannel(name, genre, brandAReach, brandDReach, luxReach,
                      maxNumber(orZero(brandDReach), orZero(luxReach)), share, baseline)

SerChannel(name, genre, reach, brandD, lux, share, baseline) ==
    withMaxCompReach(name, genre, Rat(reach, 100), optional(brandD), optional(lux),
                     Rat(share, 100), baseline)

\* DAYPART_CATEGORIES_V2[timeband].category
daypartCategory(timeband) ==
    CASE timeband = "NPT" -> "non-prime"
      [] timeband = "CPT" -> "core-prime"
      [] OTHER -> "non-core-prime"

\* getChannelDistribution: the reach and competitor multipliers of the four bands in
\* hundredths, chosen by the channel's gap; genreVariation = (name length % 10) / 100
\* moves reach from CPT to NPT
distributionTable(gap) ==
    LET below(bound) == less(gap, RatOf(bound))
    IN  IF below(-8) THEN <<(<<18, 7, 60, 15>>), (<<20, 9, 58, 13>>)>>
        ELSE IF below(-5) THEN <<(<<22, 9, 54, 15>>), (<<24, 10, 53, 13>>)>>
        ELSE IF below(-2) THEN <<(<<28, 11, 46, 15>>), (<<27, 12, 48, 13>>)>>
        ELSE IF below(2) THEN <<(<<33, 12, 40, 15>>), (<<32, 12, 43, 13>>)>>
        ELSE IF below(5) THEN <<(<<40, 14, 32, 14>>), (<<36, 12, 40, 12>>)>>
        ELSE IF below(8) THEN <<(<<48, 16, 24, 12>>), (<<40, 13, 36, 11>>)>>
        ELSE <<(<<55, 18, 15, 12>>), (<<44, 14, 32, 10>>)>>

distributionOf(table, genreVariation) ==
    [reach |-> <<Rat(table[1][1] + genreVariation, 100), Rat(table[1][2], 100),
                 Rat(table[1][3] - genreVariation, 100), Rat(table[1][4], 100)>>,
     comp |-> <<Rat(table[2][1], 100), Rat(table[2][2], 100),
                Rat(table[2][3], 100), Rat(table[2][4], 100)>>]

getChannelDistribution(channel) ==
    distributionOf(distributionTable(channel.gap), Len(CodeUnits[channel.channel]) % 10)

\* channel.brandXReach ? channel.brandXReach * multiplier : 0
scaledOrZero(opt, multiplier) ==
    IF orZero(opt) = RatOf(0) THEN RatOf(0) ELSE RatMul(opt[1], multiplier)

\* the band pushed by the loop of generateSampleTimebandData
sampleBandOf(channel, karnataka, timeband, brandAReach, maxCompReach, reachShare, compShare) ==
    [timeband |-> timeband,
     brandAReach |-> brandAReach,
     brandAShare |-> RatMul(channel.channelShare, reachShare),
     brandAOTS |-> RatMul(brandAReach, Rat(5, 10)),
     maxCompReach |-> maxCompReach,
     gap |-> minus(brandAReach, maxCompReach),
     isPrimetime |-> isPrime(timeband),
     daypartCategory |-> daypartCategory(timeband),
     brandBReach |-> IF karnataka
         THEN Some(scaledOrZero(channel.brandBReach, compShare))
         ELSE Undefined,
     brandCReach |-> IF karnataka
         THEN Some(scaledOrZero(channel.brandCReach, compShare))
         ELSE Undefined,
     atcIndex |-> IF karnataka
         THEN Some(RatMul(brandAReach, Rat(ATC_DAYPART_FACTORS_V2[timeband] * 100, 10)))
         ELSE Undefined,
     brandDReach |-> IF karnataka THEN Undefined
         ELSE Some(scaledOrZero(channel.brandDReach, compShare)),
     \* a ChannelRecord has no brandEReach
     brandEReach |-> IF karnataka THEN Undefined ELSE Some(RatOf(0)),
     luxReach |-> Undefined]

sampleBand(channel, karnataka, timeband, reachShare, compShare) ==
    sampleBandOf(channel, karnataka, timeband, RatMul(channel.brandAReach, reachShare),
                 RatMul(channel.maxCompReach, compShare), reachShare, compShare)

sampleBands(channel, karnataka, distribution) ==
    [k \in 1..4 |-> sampleBand(channel, karnataka, TIMEBAND_LABELS[k],
                               distribution.reach[k], distribution.comp[k])]

\* generateSampleTimebandData: the four bands of a channel without timeband data
generateSampleTimebandData(channel, m) ==
    sampleBands(channel, m = "Karnataka", getChannelDistribution(channel))

RECURSIVE sumBrandAReach(_)
sumBrandAReach(tbs) ==
    IF tbs = << >> THEN RatOf(0)
    ELSE RatSum(Head(tbs).brandAReach, sumBrandAReach(Tail(tbs)))

\* the mean brandAReach of the selected bands, 0 when there is none
meanReach(bands) ==
    IF bands = << >> THEN RatOf(0) ELSE RatQuot(sumBrandAReach(bands), Len(bands))

calculatePrimetimeAggregate(tbs) ==
    meanReach(SelectSeq(tbs, LAMBDA tb : tb.timeband \in {"NCPT_EARLY", "CPT", "NCPT_LATE"}))

calculateNonPrimetimeAggregate(tbs) ==
    meanReach(SelectSeq(tbs, LAMBDA tb : tb.timeband = "NPT"))

\* findPeakTimeband: the first band of the stable descending sort on the metric,
\* that is the first band no other band exceeds
findPeakTimeband(tbs, metric) ==
    IF tbs = << >> THEN ""
    ELSE LET k == CHOOSE i \in 1..Len(tbs) :
                      /\ \A j \in 1..Len(tbs) : ~ less(tbs[i][metric], tbs[j][metric])
                      /\ \A j \in 1..(i - 1) : less(tbs[j][metric], tbs[i][metric])
         IN  tbs[k].timeband

enrichChannelWithTimebands(baseChannel, timebandData) ==
    IF timebandData = << >> THEN baseChannel
    ELSE [timebands |-> Some(timebandData),
          primetimeReach |-> calculatePrimetimeAggregate(timebandData),
          nonPrimetimeReach |-> calculateNonPrimetimeAggregate(timebandData),
          peakTimeband |-> findPeakTimeband(timebandData, "brandAReach"),
          opportunityTimeband |-> findPeakTimeband(timebandData, "gap")] @@ baseChannel

\* App: channels that carry timebands are kept, the others get sample timebands
enrichSerChannel(channel) ==
    IF channel.timebands # Undefined /\ channel.timebands[1] # << >> THEN channel
    ELSE enrichChannelWithTimebands(channel, generateSampleTimebandData(channel, "UP"))

(***************************************************************************)
(* calculateDistrictChannels                                               *)
(***************************************************************************)
\* Math.max(0.4, Math.min(1.8, product)) of a wide rational product >= 0
clampFactor(product) ==
    IF WideLess(WideScale(product.num, 5), WideScale(product.den, 2))
    THEN WideRat(Rat(4, 10))
    ELSE IF WideLess(WideScale(product.den, 9), WideScale(product.num, 5))
         THEN WideRat(Rat(18, 10))
    ELSE product

\* Math.max(0.4, Math.min(1.8, baseFactor * genreAffinity * (1 + jitter))), as a
\* wide rational; NaN when baseFactor is
combinedFactor(baseFactor, genreAffinity, jitter) ==
    IF isNaN(baseFactor) THEN WideRat(NaN)
    ELSE clampFactor(WideRatTimes(WideRatTimes(WideRat(baseFactor), genreAffinity),
                                  RatSum(RatOf(1), jitter)))

\* +(value * factor).toFixed(2); NaN when the factor is
scaleReach(value, factor) ==
    IF isZeroWide(factor.den) THEN NaN ELSE toFixedWide(WideRatTimes(factor, value), 2)

\* +(value * factor * normalizedAdjust).toFixed(2); NaN when the factor is
scaleBand(value, factor, normalizedAdjust) ==
    IF isZeroWide(factor.den) \/ isNaN(normalizedAdjust) THEN NaN
    ELSE toFixedWide(WideRatTimes(WideRatTimes(factor, value), normalizedAdjust), 2)

\* value != null ? scale(value) : undefined
scaleOptional(opt, factor, normalizedAdjust) ==
    IF opt = Undefined THEN Undefined ELSE Some(scaleBand(opt[1], factor, normalizedAdjust))

\* maxCompReach > 0 ? +((brandAReach / maxCompReach) * 100).toFixed(1)
\*                  : (brandAReach > 0 ? 999 : 0)
indexVsCompetitionOf(brandAReach, maxCompReach) ==
    IF less(RatOf(0), maxCompReach)
    THEN IF isNaN(brandAReach) THEN NaN
         ELSE toFixed(RatMul(RatDiv(brandAReach, maxCompReach), RatOf(100)), 1)
    ELSE IF less(RatOf(0), brandAReach) THEN RatOf(999) ELSE RatOf(0)

\* an absent channel's record whose timebands are passed through unchanged
absentChannelStaleTimebands(ch) ==
    [ch EXCEPT
        !.brandAReach = RatOf(0), !.brandDReach = Some(RatOf(0)),
        !.luxReach = Some(RatOf(0)), !.maxCompReach = RatOf(0), !.gap = RatOf(0),
        !.indexVsCompetition = RatOf(0)]

\* the record of a channel without presence in the district
absentChannel(ch) ==
    [ch EXCEPT
        !.brandAReach = RatOf(0), !.brandDReach = Some(RatOf(0)),
        !.luxReach = Some(RatOf(0)), !.maxCompReach = RatOf(0), !.gap = RatOf(0),
        !.indexVsCompetition = RatOf(0),
        !.timebands =
            IF ch.timebands = Undefined THEN Undefined
            ELSE Some([k \in 1..Len(ch.timebands[1]) |->
                     [ch.timebands[1][k] EXCEPT
                         !.brandAReach = RatOf(0), !.brandAShare = RatOf(0),
                         !.brandAOTS = RatOf(0), !.brandDReach = Some(RatOf(0)),
                         !.luxReach = Some(RatOf(0)), !.maxCompReach = RatOf(0),
                         !.gap = RatOf(0)]])]

RECURSIVE sumWeights(_)
\* rawAdjusted.reduce((s, t) => s + t._weight, 0)
sumWeights(weights) ==
    IF weights = << >> THEN RatOf(0) ELSE RatSum(Head(weights), sumWeights(Tail(weights)))

\* Math.max(tbBrandD || 0, tbLux || 0, tbComp)
bandMaxCompReach(tbBrandD, tbLux, tbComp) ==
    maxNumber(maxNumber(orZero(tbBrandD), orZero(tbLux)), tbComp)

\* the band returned by the second map of the timeband scaling
scaledBandOf(tb, tbBrandA, tbBrandD, tbLux, maxCompReach, finalFactor) ==
    [tb EXCEPT
        !.brandAReach = tbBrandA,
        !.brandAShare = scaleReach(tb.brandAShare, finalFactor),
        !.brandAOTS = scaleReach(tb.brandAOTS, finalFactor),
        !.brandDReach = tbBrandD, !.luxReach = tbLux,
        !.maxCompReach = maxCompReach,
        !.gap = toFixed(minus(tbBrandA, maxCompReach), 2)]

withBandMaxCompReach(tb, tbBrandA, tbComp, tbBrandD, tbLux, finalFactor) ==
    scaledBandOf(tb, tbBrandA, tbBrandD, tbLux, bandMaxCompReach(tbBrandD, tbLux, tbComp),
                 finalFactor)

scaleTimeband(tb, normalizedAdjust, f) ==
    withBandMaxCompReach(tb,
        scaleBand(tb.brandAReach, f.finalFactor, normalizedAdjust),
        scaleBand(tb.maxCompReach, f.compFactor1, normalizedAdjust),
        scaleOptional(tb.brandDReach, f.compFactor1, normalizedAdjust),
        scaleOptional(tb.luxReach, f.compFactor2, normalizedAdjust),
        f.finalFactor)

\* (tb._weight / totalWeight) * rawAdjusted.length
normalizedAdjustOf(weight, totalWeight, length) ==
    RatMul(RatDiv(weight, totalWeight), RatOf(length))

weightedTimebands(tbs, weight, totalWeight, f) ==
    [k \in 1..Len(tbs) |->
        scaleTimeband(tbs[k], normalizedAdjustOf(weight[k], totalWeight, Len(tbs)), f)]

totalWeighted(tbs, weight, f) == weightedTimebands(tbs, weight, sumWeights(weight), f)

\* the timebands of a present channel: each band's weight is its urban shift,
\* normalised by the total weight times the number of bands
scaleTimebands(tbs, urbanPct, f) ==
    totalWeighted(tbs, [k \in 1..Len(tbs) |-> getTimebandUrbanShift(tbs[k].timeband, urbanPct)],
                  f)

factorOf(ch, d, baseFactor, genreAffinity, maxShareInSer, suffix) ==
    combinedFactor(baseFactor, genreAffinity,
                   getChannelJitter(d.district, ch.channel, ch.channelShare,
                                    maxShareInSer, suffix))

affineFactors(ch, d, baseFactor, genreAffinity, maxShareInSer) ==
    [finalFactor |-> factorOf(ch, d, baseFactor, genreAffinity, maxShareInSer, ""),
     compFactor1 |-> factorOf(ch, d, baseFactor, genreAffinity, maxShareInSer, "_comp1"),
     compFactor2 |-> factorOf(ch, d, baseFactor, genreAffinity, maxShareInSer, "_comp2")]

\* the three factors of a present channel: Brand A, first and second competitor
factorsOf(ch, d, baseFactor, maxShareInSer) ==
    affineFactors(ch, d, baseFactor, getGenreAffinity(ch.genre, d.urbanPct, d.literacyPct),
                  maxShareInSer)

\* the record returned for a present channel
scaledChannelOf(ch, urbanPct, f, brandAReach, brandDReach, luxReach, maxCompReach) ==
    [ch EXCEPT
        !.brandAReach = brandAReach, !.brandDReach = brandDReach,
        !.luxReach = luxReach, !.maxCompReach = maxCompReach,
        !.gap = toFixed(minus(brandAReach, maxCompReach), 2),
        !.indexVsCompetition = indexVsCompetitionOf(brandAReach, maxCompReach),
        !.timebands =
            IF ch.timebands = Undefined THEN Undefined
            ELSE Some(scaleTimebands(ch.timebands[1], urbanPct, f))]

withChannelMaxCompReach(ch, urbanPct, f, brandAReach, brandDReach, luxReach) ==
    scaledChannelOf(ch, urbanPct, f, brandAReach, brandDReach, luxReach,
                    maxNumber(orZero(brandDReach), orZero(luxReach)))

scaledChannel(ch, urbanPct, f) ==
    withChannelMaxCompReach(ch, urbanPct, f,
        scaleReach(ch.brandAReach, f.finalFactor),
        scaleOptional(ch.brandDReach, f.compFactor1, RatOf(1)),
        scaleOptional(ch.luxReach, f.compFactor2, RatOf(1)))

\* the record of a channel present in the district
presentChannel(ch, d, baseFactor, maxShareInSer) ==
    scaledChannel(ch, d.urbanPct, factorsOf(ch, d, baseFactor, maxShareInSer))

\* Math.max(...serChannels.map(c => c[field]), 0.01)
maxInSer(chs, field) == MaxOf([k \in 1..Len(chs) |-> chs[k][field]], Rat(1, 100))

isPresentIn(ch, chs, d) ==
    getChannelPresence(d.district, ch.channel, ch.brandAReach, maxInSer(chs, "brandAReach"),
                       ch.channelShare, maxInSer(chs, "channelShare"), d)

calculateDistrictChannels(chs, d, ds) ==
    LET baseFactor == getBaseCdmiFactor(d, ds)
        maxShareInSer == maxInSer(chs, "channelShare")
    IN  [k \in 1..Len(chs) |->
            IF isPresentIn(chs[k], chs, d)
            THEN presentChannel(chs[k], d, baseFactor, maxShareInSer)
            ELSE absentChannel(chs[k])]

(***************************************************************************)
(* calculateDistrictSummary, and calculateStatus of a record of the        *)
(* district scaling                                                        *)
(***************************************************************************)
\* a >= b; false when either is NaN
atLeast(a, b) == ~ isNaN(a) /\ ~ isNaN(b) /\ RatLeq(b, a)

\* c.brandAReach > 0
hasBrandAReach(c) == less(RatOf(0), c.brandAReach)

\* c.brandAReach === 0 && c.maxCompReach >= 2.0 && c.channelShare >= 1.0
isDistrictOpportunity(c) ==
    /\ ~ isNaN(c.brandAReach)
    /\ c.brandAReach.num = 0
    /\ atLeast(c.maxCompReach, RatOf(2))
    /\ atLeast(c.channelShare, RatOf(1))

RECURSIVE sumGap(_)
\* withBrandA.reduce((s, c) => s + c.gap, 0)
sumGap(chs) ==
    IF chs = << >> THEN RatOf(0)
    ELSE IF isNaN(Head(chs).gap) \/ isNaN(sumGap(Tail(chs))) THEN NaN
    ELSE RatSum(Head(chs).gap, sumGap(Tail(chs)))

\* reachOverall and confidence are copied from the district record like cdmiScore
calculateDistrictSummary(d, chs) ==
    LET withBrandA == SelectSeq(chs, hasBrandAReach)
        opportunities == SelectSeq(chs, isDistrictOpportunity)
        avgGap == IF Len(withBrandA) > 0
                  THEN IF isNaN(sumGap(withBrandA)) THEN NaN
                       ELSE RatQuot(sumGap(withBrandA), Len(withBrandA))
                  ELSE RatOf(0)
    IN  [cdmiScore |-> d.cdmiScore,
         brandAChannels |-> Len(withBrandA),
         opportunities |-> Len(opportunities),
         avgGap |-> toFixed(avgGap, 2)]

\* a number of two decimals in hundredths, of one decimal in tenths
inUnits(a, perPoint) == (a.num * perPoint) \div a.den

\* the record of the district scaling as calculateStatus reads it: reaches and
\* share in hundredths, indexVsCompetition in tenths
statusRecord(c) ==
    ChannelRecord(c.channel, inUnits(c.brandAReach, 100), inUnits(c.maxCompReach, 100),
                  inUnits(c.gap, 100), inUnits(c.channelShare, 100),
                  inUnits(c.indexVsCompetition, 10))

(***************************************************************************)
(* Inputs of the district scaling                                          *)
(***************************************************************************)
\* <<urbanPct, literacyPct, tvOwnershipPct, electrificationPct, internetPct,
\*   cdmiScore>> in hundredths: a city, a district of average access, a rural one
DistrictProfiles ==
    { <<65, 77, 60, 90, 40, 71>>, <<15, 60, 30, 50, 15, 46>>, <<3, 47, 10, 20, 5, 21>> }

DistrictNames == {"Lucknow", "Shravasti"}

ProfiledDistrict(name, p) == DistrictRecord(name, p[1], p[2], p[3], p[4], p[5], p[6])

Districts == { ProfiledDistrict(name, p) : name \in DistrictNames, p \in DistrictProfiles }

\* the districts of the region: none, the district alone, a city and a rural one
SerDistrictLists(d) ==
    { << >>, <<d>>,
      << ProfiledDistrict("Lucknow", <<65, 77, 60, 90, 40, 71>>),
         ProfiledDistrict("Shravasti", <<3, 47, 10, 20, 5, 21>>) >> }

\* the channels of the region: a leading entertainment channel, a movie channel
\* whose second competitor is the larger one, a small news channel without a
\* second competitor, and a channel Brand A is not on
SerChannels ==
    << SerChannel("Dangal", "Hindi GEC", 1215, Some(843), Some(699), 1019, 120),
       SerChannel("B4U Movies", "Hindi Movies", 507, Some(215), Some(725), 448, 95),
       SerChannel("Aaj Tak", "Hindi News", 37, Some(122), Undefined, 55, 80),
       SerChannel("Zee Anmol", "Hindi GEC", 0, Some(330), Some(0), 228, 0) >>

\* the empty list, every list of one or two of the channels, and all four
SerChannelLists ==
    { << >>, SerChannels }
    \cup { <<SerChannels[i]>> : i \in 1..4 }
    \cup { <<SerChannels[p[1]], SerChannels[p[2]]>> :
              p \in { q \in (1..4) \X (1..4) : q[1] # q[2] } }

\* no timeband utility has been called
TimebandIdle ==
    /\ market = "UP"
    /\ timebands = << >>
    /\ scores = << >>
    /\ recommendations = << >>
    /\ insights = << >>

\* compareTimebandAcrossGeographies has not been called
GeoIdle ==
    /\ allMarketData = << >>
    /\ comparisons = << >>

\* calculateDistrictChannels has not been called
DistrictIdle ==
    /\ serChannels = << >>
    /\ district = << >>
    /\ serDistricts = << >>
    /\ districtChannels = << >>

\* no helper of the district scaling has been called on its own
CallsIdle == jitterCalls = << >>

\* no transform function has been called on a caller's array
FrameIdle == frame = << >>

\* the App component is not mounted
AppIdle == app = << >> /\ hooks = << >>

SessionIdle == CallsIdle /\ FrameIdle /\ AppIdle

AnalysisIdle == GeoIdle /\ DistrictIdle /\ SessionIdle

(***************************************************************************)
(* The state machine: the utilities applied to a channel list              *)
(***************************************************************************)
Init ==
    /\ channels \in InputLists
    /\ displayChannels = channels
    /\ filterMode = "none"
    /\ intensity = 15
    /\ threshold = 70
    /\ statuses = << >>
    /\ protectedChannels = << >>
    /\ results = << >>
    /\ pc = "ready"
    /\ TimebandIdle
    /\ AnalysisIdle

\* displayChannels = filterRelevantChannels(displayChannels, mode)
FilterRelevantChannels(mode) ==
    /\ pc = "ready"
    /\ displayChannels' = filterRelevantChannels(displayChannels, mode)
    /\ filterMode' = mode
    /\ UNCHANGED <<channels, intensity, threshold, statuses, protectedChannels,
                   results, pc>>
    /\ UNCHANGED <<timebandVars, analysisVars>>

\* the status column: calculateStatus(ch) for every displayed channel
CalculateStatus ==
    /\ pc = "ready"
    /\ statuses' = [i \in DOMAIN displayChannels |-> calculateStatus(displayChannels[i])]
    /\ pc' = "classified"
    /\ UNCHANGED <<channels, displayChannels, filterMode, intensity, threshold,
                   protectedChannels, results>>
    /\ UNCHANGED <<timebandVars, analysisVars>>

GetProtectedChannels(t) ==
    /\ pc = "ready"
    /\ threshold' = t
    /\ protectedChannels' = getProtectedChannels(displayChannels, t)
    /\ pc' = "protected"
    /\ UNCHANGED <<channels, displayChannels, filterMode, intensity, statuses, results>>
    /\ UNCHANGED <<timebandVars, analysisVars>>

\* handleOpt: runOptimization(displayChannels, intensity, threshold)
RunOptimization(i, t) ==
    /\ pc = "ready"
    /\ intensity' = i
    /\ threshold' = t
    /\ results' = runOptimization(displayChannels, i, t)
    /\ pc' = "optimized"
    /\ UNCHANGED <<channels, displayChannels, filterMode, statuses, protectedChannels>>
    /\ UNCHANGED <<timebandVars, analysisVars>>

Next ==
    \/ \E mode \in {"actionable", "all"} : FilterRelevantChannels(mode)
    \/ CalculateStatus
    \/ \E t \in Thresholds : GetProtectedChannels(t)
    \/ \E i \in Intensities, t \in Thresholds : RunOptimization(i, t)

Spec == Init /\ [][Next]_vars

(***************************************************************************)
(* The timeband utilities applied to the timebands of one channel          *)
(***************************************************************************)
\* no channel utility has been called
ChannelIdle ==
    /\ channels = << >>
    /\ displayChannels = << >>
    /\ filterMode = "none"
    /\ threshold = 70
    /\ statuses = << >>
    /\ protectedChannels = << >>
    /\ results = << >>

TimebandInit ==
    /\ ChannelIdle
    /\ intensity = 15
    /\ pc = "ready"
    /\ market \in Markets
    /\ timebands \in TimebandLists(market)
    /\ scores = << >>
    /\ recommendations = << >>
    /\ insights = << >>
    /\ AnalysisIdle

RankTimebandsByScore ==
    /\ pc = "ready"
    /\ scores' = rankTimebandsByScore(timebands, market)
    /\ pc' = "ranked"
    /\ UNCHANGED <<channelVars, intensity, market, timebands, recommendations, insights>>
    /\ UNCHANGED analysisVars

GenerateTimebandRecommendations(i) ==
    /\ pc = "ready"
    /\ intensity' = i
    /\ recommendations' = generateTimebandRecommendations("channel", timebands, market, i)
    /\ pc' = "recommended"
    /\ UNCHANGED <<channelVars, market, timebands, scores, insights>>
    /\ UNCHANGED analysisVars

TimebandNext ==
    \/ RankTimebandsByScore
    \/ \E i \in Intensities : GenerateTimebandRecommendations(i)

TimebandSpec == TimebandInit /\ [][TimebandNext]_vars

(***************************************************************************)
(* generateSimplifiedInsights applied to the timebands of one channel      *)
(***************************************************************************)
InsightInit ==
    /\ ChannelIdle
    /\ intensity = 15
    /\ pc = "ready"
    /\ market = "UP"
    /\ timebands \in InsightLists
    /\ scores = << >>
    /\ recommendations = << >>
    /\ insights = << >>
    /\ AnalysisIdle

GenerateSimplifiedInsights ==
    /\ pc = "ready"
    /\ insights' = generateSimplifiedInsights(timebands)
    /\ pc' = "insights"
    /\ UNCHANGED <<channelVars, intensity, market, timebands, scores, recommendations>>
    /\ UNCHANGED analysisVars

InsightNext == GenerateSimplifiedInsights

InsightSpec == InsightInit /\ [][InsightNext]_vars

(***************************************************************************)
(* compareTimebandAcrossGeographies applied to the data of three markets   *)
(***************************************************************************)
GeoInit ==
    /\ ChannelIdle
    /\ intensity = 15
    /\ pc = "ready"
    /\ TimebandIdle
    /\ DistrictIdle
    /\ SessionIdle
    /\ allMarketData \in [UP : MarketLists, Maharashtra : MarketLists, Karnataka : MarketLists]
    /\ comparisons = << >>

CompareTimebandAcrossGeographies ==
    /\ pc = "ready"
    /\ comparisons' = compareTimebandAcrossGeographies("channel", allMarketData)
    /\ pc' = "compared"
    /\ UNCHANGED <<channelVars, intensity, timebandVars, allMarketData, districtVars,
                   sessionVars>>

GeoNext == CompareTimebandAcrossGeographies

GeoSpec == GeoInit /\ [][GeoNext]_vars

(***************************************************************************)
(* The district view: the region's channels are enriched with timebands    *)
(* and scaled to the selected district                                     *)
(***************************************************************************)
DistrictInit ==
    /\ ChannelIdle
    /\ intensity = 15
    /\ pc = "ready"
    /\ TimebandIdle
    /\ GeoIdle
    /\ SessionIdle
    /\ district \in Districts
    /\ serDistricts \in SerDistrictLists(district)
    /\ serChannels \in SerChannelLists
    /\ districtChannels = << >>

\* enrichedSerChannels: every channel without timebands gets sample timebands
EnrichSerChannels ==
    /\ pc = "ready"
    /\ serChannels' = [k \in 1..Len(serChannels) |-> enrichSerChannel(serChannels[k])]
    /\ pc' = "enriched"
    /\ UNCHANGED <<channelVars, intensity, timebandVars, geoVars, district, serDistricts,
                   districtChannels, sessionVars>>

CalculateDistrictChannels ==
    /\ pc \in {"ready", "enriched"}
    /\ districtChannels' = calculateDistrictChannels(serChannels, district, serDistricts)
    /\ pc' = "scaled"
    /\ UNCHANGED <<channelVars, intensity, timebandVars, geoVars, serChannels, district,
                   serDistricts, sessionVars>>

DistrictNext ==
    \/ EnrichSerChannels
    \/ CalculateDistrictChannels

DistrictSpec == DistrictInit /\ [][DistrictNext]_vars

(***************************************************************************)
(* The helpers of the district scaling called on their own, in any order:  *)
(* every call is logged with its arguments and the value it returned.      *)
(***************************************************************************)
MaxCalls == 3

\* <<channelShare, maxShareInSer>> in hundredths
JitterShares == { <<55, 1019>>, <<448, 1019>> }
JitterChannels == {"Dangal", "Aaj Tak"}
JitterSuffixes == {"", "_comp1"}

JitterInit ==
    /\ ChannelIdle
    /\ intensity = 15
    /\ pc = "ready"
    /\ TimebandIdle
    /\ GeoIdle
    /\ DistrictIdle
    /\ FrameIdle
    /\ AppIdle
    /\ jitterCalls = << >>

GetChannelJitter(districtName, channelName, share, suffix) ==
    /\ Len(jitterCalls) < MaxCalls
    /\ jitterCalls' = Append(jitterCalls,
           [fn |-> "getChannelJitter",
            args |-> <<districtName, channelName, share[1], share[2], suffix>>,
            value |-> getChannelJitter(districtName, channelName, Rat(share[1], 100),
                                       Rat(share[2], 100), suffix)])
    /\ pc' = "called"
    /\ UNCHANGED <<channelVars, intensity, timebandVars, geoVars, districtVars, frameVars,
                   appVars>>

GetChannelPresence(d, k) ==
    /\ Len(jitterCalls) < MaxCalls
    /\ jitterCalls' = Append(jitterCalls,
           [fn |-> "getChannelPresence",
            args |-> <<d, k>>,
            value |-> isPresentIn(SerChannels[k], SerChannels, d)])
    /\ pc' = "called"
    /\ UNCHANGED <<channelVars, intensity, timebandVars, geoVars, districtVars, frameVars,
                   appVars>>

JitterNext ==
    \/ \E districtName \in DistrictNames, channelName \in JitterChannels,
          share \in JitterShares, suffix \in JitterSuffixes :
           GetChannelJitter(districtName, channelName, share, suffix)
    \/ \E name \in DistrictNames :
           GetChannelPresence(ProfiledDistrict(name, <<15, 60, 30, 50, 15, 46>>), 3)

JitterSpec == JitterInit /\ [][JitterNext]_vars

(***************************************************************************)
(* getGenreAffinity called on its own for a genre key and the urban and    *)
(* literacy shares of a district                                           *)
(***************************************************************************)
\* the keys of GENRE_CATEGORY and keys it does not hold
GenreKeys == DOMAIN GENRE_CATEGORY \cup {"", "Hindi Comedy", "gec"}

\* urbanPct and literacyPct in hundredths
UrbanShares == 0..100
LiteracyShares == {0, 59, 60, 61, 100}

GetGenreAffinity(genre, urban, literacy) ==
    /\ jitterCalls = << >>
    /\ jitterCalls' = <<[fn |-> "getGenreAffinity",
                         args |-> <<genre, urban, literacy>>,
                         value |-> getGenreAffinity(genre, Rat(urban, 100), Rat(literacy, 100))]>>
    /\ pc' = "called"
    /\ UNCHANGED <<channelVars, intensity, timebandVars, geoVars, districtVars, frameVars,
                   appVars>>

AffinityNext ==
    \E genre \in GenreKeys, urban \in UrbanShares, literacy \in LiteracyShares :
        GetGenreAffinity(genre, urban, literacy)

AffinitySpec == JitterInit /\ [][AffinityNext]_vars

(***************************************************************************)
(* The caller's array.  Of the array methods the transform functions use,  *)
(* only sort writes the array it is called on (and returns that array);    *)
(* filter, map, slice and the spread [...a] build a fresh array of the     *)
(* same element objects, and no function assigns to a field of an element. *)
(* An array is kept with the place it lives at: "input" is the array the   *)
(* caller handed over, "fresh" an array the function built.                *)
(***************************************************************************)
inputArray(items) == [at |-> "input", items |-> items]
freshArray(items) == [at |-> "fresh", items |-> items]

\* the caller's array once arr.sort(...) has put arr in the order of sorted
afterSort(arr, sorted, input) == IF arr.at = "input" THEN sorted ELSE input

\* sort((a, b) => b.gap - a.gap): descending and stable
sortByGapDesc(bands) ==
    LET n == Len(bands)
        before(i) == Cardinality({ j \in 1..n :
                        \/ bands[i].gap < bands[j].gap
                        \/ bands[j].gap = bands[i].gap /\ j < i })
    IN  [k \in 1..n |-> bands[CHOOSE i \in 1..n : before(i) = k - 1]]

\* const withBrandA = channels.filter(...); [...withBrandA].sort(...)
getProtectedChannelsFrame(chs) ==
    LET withBrandA == freshArray(SelectSeq(chs, hasBrandA))
        copy == freshArray(withBrandA.items)
    IN  afterSort(copy, sortByReachDesc(copy.items), chs)

\* getProtectedChannels(channels, threshold), then a loop that reads channels
runOptimizationFrame(chs) == getProtectedChannelsFrame(chs)

\* return channels, or return channels.filter(...)
filterRelevantChannelsFrame(chs) == chs

\* timebands.map(...), then [...scoredTimebands].sort(...)
rankTimebandsByScoreFrame(tbs, m) ==
    IF Len(tbs) = 0 THEN tbs
    ELSE LET scoredTimebands == freshArray(scoreEach(tbs, tbs, m))
             copy == freshArray(scoredTimebands.items)
         IN  afterSort(copy, sortByScoreDesc(copy.items), tbs)

\* rankTimebandsByScore(timebands, market), then a loop that reads timebands
generateTimebandRecommendationsFrame(tbs, m) ==
    IF Len(tbs) = 0 THEN tbs ELSE rankTimebandsByScoreFrame(tbs, m)

\* sorting the caller's timebands themselves
strongBandsInPlace(tbs) == inputArray(tbs)

\* const strongBands = timebands.filter(tb => tb.gap > 5)
strongBandsOf(tbs) == freshArray(SelectSeq(tbs, isStrong))

\* strongBands.sort(...) runs where no band is behind by 1 or more and a band is strong
findTopActionFrame(tbs) ==
    LET worst == worstBandOf(tbs)
        worstGap == IF worst = 0 THEN 0 ELSE tbs[worst].gap
        strongBands == strongBandsOf(tbs)
    IN  IF (worst = 0 \/ worstGap > -10) /\ Len(SelectSeq(tbs, isStrong)) > 0
        THEN afterSort(strongBands, sortByGapDesc(strongBands.items), tbs)
        ELSE tbs

\* calculatePrimeTimeFocus and calculateOpportunityScore filter and reduce
generateSimplifiedInsightsFrame(tbs) ==
    IF Len(tbs) = 0 THEN tbs ELSE findTopActionFrame(tbs)

\* serChannels.map(...) and ch.timebands.map(...): every record is built anew
calculateDistrictChannelsFrame(chs) == chs

(***************************************************************************)
(* The transform functions called on a caller's array: the array before    *)
(* the call and the same array after it                                    *)
(***************************************************************************)
Frame(fn, before, after) == [fn |-> fn, before |-> before, after |-> after]

FrameInit ==
    /\ ChannelIdle
    /\ intensity = 15
    /\ pc = "ready"
    /\ TimebandIdle
    /\ AnalysisIdle

Called(fn, before, after) ==
    /\ frame' = Frame(fn, before, after)
    /\ pc' = "called"
    /\ UNCHANGED <<channelVars, intensity, timebandVars, geoVars, districtVars, callVars,
                   appVars>>

CallRunOptimization ==
    /\ pc = "ready"
    /\ \E chs \in InputLists : Called("runOptimization", chs, runOptimizationFrame(chs))

CallFilterRelevantChannels ==
    /\ pc = "ready"
    /\ \E chs \in InputLists :
           Called("filterRelevantChannels", chs, filterRelevantChannelsFrame(chs))

CallRankTimebandsByScore ==
    /\ pc = "ready"
    /\ \E m \in Markets : \E tbs \in TimebandLists(m) :
           Called("rankTimebandsByScore", tbs, rankTimebandsByScoreFrame(tbs, m))

CallGenerateTimebandRecommendations ==
    /\ pc = "ready"
    /\ \E m \in Markets : \E tbs \in TimebandLists(m) :
           Called("generateTimebandRecommendations", tbs,
                  generateTimebandRecommendationsFrame(tbs, m))

CallGenerateSimplifiedInsights ==
    /\ pc = "ready"
    /\ \E tbs \in InsightLists :
           Called("generateSimplifiedInsights", tbs, generateSimplifiedInsightsFrame(tbs))

\* the district view hands over the enriched channels of the region
CallCalculateDistrictChannels ==
    /\ pc = "ready"
    /\ \E chs \in SerChannelLists :
           Called("calculateDistrictChannels",
                  [k \in 1..Len(chs) |-> enrichSerChannel(chs[k])],
                  calculateDistrictChannelsFrame([k \in 1..Len(chs) |-> enrichSerChannel(chs[k])]))

FrameNext ==
    \/ CallRunOptimization
    \/ CallFilterRelevantChannels
    \/ CallRankTimebandsByScore
    \/ CallGenerateTimebandRecommendations
    \/ CallGenerateSimplifiedInsights
    \/ CallCalculateDistrictChannels

FrameSpec == FrameInit /\ [][FrameNext]_vars

(***************************************************************************)
(* The App component (App.tsx): its useState values, the ref and the       *)
(* memoized values its hooks keep between renders, one action per event     *)
(* handler and one action for a render with the effects it commits.         *)
(* Reach is in hundredths of a point, as for the channel utilities.         *)
(***************************************************************************)
\* brandAData.metadata.markets: the options of the market selector
AppMarkets == {"UP", "Maharashtra", "Karnataka"}

\* brandAData.markets: per market the SCR names and the channel records of each
\* SCR.  "Aastha" and "Dangal" are Hindi channels, the others are not.
brandAData ==
    [m \in AppMarkets |->
        CASE m = "UP" ->
               [scrs |-> <<"UP Overall", "Awadh">>,
                channelData |->
                    ("UP Overall" :> <<DerivedRecord("Dangal", 500, 600, 40),
                                       DerivedRecord("Aastha", 0, 300, 150)>>
                     @@ "Awadh" :> <<DerivedRecord("Dangal", 300, 100, 40)>>)]
          [] m = "Maharashtra" ->
               [scrs |-> <<"Maharashtra Overall", "Vidarbha">>,
                channelData |->
                    ("Maharashtra Overall" :> <<DerivedRecord("Zee Marathi", 500, 600, 40),
                                                DerivedRecord("Aastha", 300, 100, 20)>>
                     @@ "Vidarbha" :> <<DerivedRecord("Zee Marathi", 200, 400, 40)>>)]
          [] OTHER ->
               [scrs |-> <<"Bangalore", "Karnataka Overall">>,
                channelData |->
                    ("Bangalore" :> <<DerivedRecord("Zee Kannada", 400, 100, 40)>>
                     @@ "Karnataka Overall" :> <<DerivedRecord("Zee Kannada", 500, 600, 40),
                                                 DerivedRecord("Dangal", 100, 300, 20)>>)]]

\* districtData: the regions (SERs) of UP and the districts of each
districtData ==
    [sers |-> <<"Awadh", "Braj">>,
     districts |-> <<[ser |-> "Awadh", district |-> "Lucknow"],
                     [ser |-> "Awadh", district |-> "Unnao"],
                     [ser |-> "Braj", district |-> "Agra"]>>]

\* the members of HINDI_CHANNELS the data holds
HINDI_CHANNELS == {"Dangal", "Aastha"}
isHindiChannel(channelName) == channelName \in HINDI_CHANNELS
isRegionalChannel(ch) == ~ isHindiChannel(ch.channel)

filterChannelsForMarket(chs, m) ==
    IF m = "Karnataka" \/ m = "Maharashtra" THEN SelectSeq(chs, isRegionalChannel)
    ELSE chs

\* marketData?.channelData[scr] || []
channelDataOf(m, s) ==
    IF s \in DOMAIN brandAData[m].channelData THEN brandAData[m].channelData[s] ELSE << >>

rawChannelsOf(m, s) == filterChannelsForMarket(channelDataOf(m, s), m)

\* The array object rawChannels is in a render: filter(...) and the literal []
\* build a new array in every render, otherwise it is the array of the data.
FreshArray == <<"fresh">>
rawChannelsRef(m, s) ==
    IF m = "Karnataka" \/ m = "Maharashtra" THEN FreshArray
    ELSE IF s \in DOMAIN brandAData[m].channelData THEN <<m, s>> ELSE FreshArray

\* c.channel.toLowerCase().includes(search.toLowerCase()) for the texts typed
\* into the search box: "" is part of every name, "zee" of the names that
\* start with Zee, "zz" of none
SearchTexts == {"", "zee", "zz"}
matchesSearch(channelName, text) ==
    \/ text = ""
    \/ text = "zee" /\ channelName \in {"Zee Marathi", "Zee Kannada"}

\* useMemo displayChannels: the relevance filter unless showAll, the search
\* filter, and the sort by column brandAReach in descending direction (genre,
\* sort column and sort direction stay at their initial values; the timeband
\* filter is off since selectedTimeband has no setter in use).  The reaches of a
\* list are distinct, so the comparator meets no tie.
displayChannelsOf(s) ==
    LET enrichedChannels == rawChannelsOf(s.market, s.scr)
        filtered == IF s.showAll THEN enrichedChannels
                    ELSE filterRelevantChannels(enrichedChannels, "actionable")
        searched == IF s.search # ""
                    THEN SelectSeq(filtered, LAMBDA ch : matchesSearch(ch.channel, s.search))
                    ELSE filtered
    IN  sortByReachDesc(searched)

\* `${market} Overall`
overallOf(m) ==
    CASE m = "UP" -> "UP Overall"
      [] m = "Maharashtra" -> "Maharashtra Overall"
      [] OTHER -> "Karnataka Overall"

\* the useState initial values; the market is the URL's market parameter
initialApp(m) ==
    [activeTab |-> "channel", selectedDistrictSer |-> Undefined,
     selectedDistrict |-> Undefined, market |-> m, scr |-> "Maharashtra Overall",
     intensity |-> 15, threshold |-> 70, isOptimized |-> FALSE, results |-> << >>,
     showAll |-> FALSE, search |-> ""]

\* the dependency values of a render that the next render compares with
depsOf(s) ==
    [market |-> s.market, scr |-> s.scr, activeTab |-> s.activeTab,
     intensity |-> s.intensity, threshold |-> s.threshold, isOptimized |-> s.isOptimized,
     showAll |-> s.showAll, search |-> s.search,
     rawChannels |-> rawChannelsRef(s.market, s.scr)]

\* a dependency differs from its value in the previous render (or there is none)
changed(prev, s, field) == prev = Undefined \/ prev[1][field] # s[field]

rawChannelsChanged(prev, s) ==
    \/ prev = Undefined
    \/ rawChannelsRef(s.market, s.scr) = FreshArray
    \/ prev[1].rawChannels # rawChannelsRef(s.market, s.scr)

\* deps [rawChannels, market] of enrichedChannels, then the deps of displayChannels
displayChannelsChanged(prev, s) ==
    \/ rawChannelsChanged(prev, s)
    \/ changed(prev, s, "market")
    \/ changed(prev, s, "showAll")
    \/ changed(prev, s, "search")
    \/ changed(prev, s, "activeTab")

\* useEffect(() => { setIsOptimized(false); setResults(new Map()); }, [market, scr])
resetRuns(prev, s) == changed(prev, s, "market") \/ changed(prev, s, "scr")
resetEffect(u) == [u EXCEPT !.isOptimized = FALSE, !.results = << >>]

\* the effect that selects the market's default SCR, deps [market, scrs]
scrEffect(s, u) ==
    LET scrs == brandAData[s.market].scrs
    IN  IF Includes(scrs, overallOf(s.market)) THEN [u EXCEPT !.scr = overallOf(s.market)]
        ELSE IF Len(scrs) > 0 THEN [u EXCEPT !.scr = scrs[1]]
        ELSE u

\* the effect that leaves the district tab, deps [market, activeTab]
districtRuns(prev, s) == changed(prev, s, "market") \/ changed(prev, s, "activeTab")
\* districtEffect clearing the selections only when it leaves the district tab
districtEffectTabOnly(s, u) ==
    IF s.market # "UP" /\ s.activeTab = "district"
    THEN [u EXCEPT !.activeTab = "channel", !.selectedDistrictSer = Undefined,
                   !.selectedDistrict = Undefined]
    ELSE u

\* if (market !== 'UP' && activeTab === 'district') setActiveTab('channel');
\* if (market !== 'UP') { setSelectedDistrictSer(null); setSelectedDistrict(null); }
districtEffect(s, u) ==
    LET left == IF s.market # "UP" /\ s.activeTab = "district"
                THEN [u EXCEPT !.activeTab = "channel"] ELSE u
    IN  IF s.market # "UP"
        THEN [left EXCEPT !.selectedDistrictSer = Undefined, !.selectedDistrict = Undefined]
        ELSE left

\* the re-optimization effect, deps [intensity, threshold, displayChannels]
reoptRuns(prev, s) ==
    \/ changed(prev, s, "intensity")
    \/ changed(prev, s, "threshold")
    \/ displayChannelsChanged(prev, s)
reoptCalls(prev, s, ref, display) == reoptRuns(prev, s) /\ ref /\ Len(display) > 0
reoptEffect(s, u, display) ==
    [u EXCEPT !.results = runOptimization(display, s.intensity, s.threshold)]

\* The state updates of the effects of one commit, in the order of declaration;
\* every effect reads the values of the render (s), the updates accumulate.
effectsOf(s, prev, ref, display) ==
    LET afterReset == IF resetRuns(prev, s) THEN resetEffect(s) ELSE s
        afterScr == IF changed(prev, s, "market") THEN scrEffect(s, afterReset)
                    ELSE afterReset
        afterDistrict == IF districtRuns(prev, s) THEN districtEffect(s, afterScr)
                         ELSE afterScr
    IN  IF reoptCalls(prev, s, ref, display) THEN reoptEffect(s, afterDistrict, display)
        ELSE afterDistrict

\* setResults was called with a new Map: React renders again also when the
\* entries are equal
setResultsCalled(s, prev, ref, display) ==
    resetRuns(prev, s) \/ reoptCalls(prev, s, ref, display)

\* useEffect(() => { prevOptimizedRef.current = isOptimized; }, [isOptimized])
refAfter(s, prev, ref) == IF changed(prev, s, "isOptimized") THEN s.isOptimized ELSE ref

\* useMemo: the stored value unless a dependency changed
memoOf(s, prev, memo) == IF displayChannelsChanged(prev, s) THEN displayChannelsOf(s) ELSE memo

AppInit ==
    /\ ChannelIdle
    /\ intensity = 15
    /\ TimebandIdle
    /\ GeoIdle
    /\ DistrictIdle
    /\ CallsIdle
    /\ FrameIdle
    /\ app \in { initialApp(m) : m \in AppMarkets }
    /\ hooks = [prevOptimizedRef |-> FALSE, deps |-> Undefined, displayChannels |-> << >>,
                commits |-> 0]
    /\ pc = "dirty"

\* a handler set state: a render is scheduled
Scheduled(next) ==
    /\ pc = "idle"
    /\ next # app
    /\ app' = next
    /\ pc' = "dirty"
    /\ UNCHANGED <<channelVars, intensity, timebandVars, geoVars, districtVars, callVars,
                   frameVars, hooks>>

\* onChange of the market selector
SetMarket(m) == Scheduled([app EXCEPT !.market = m])

\* onClick of an SCR button of the rendered market
SetSCR(s) ==
    /\ Includes(brandAData[app.market].scrs, s)
    /\ Scheduled([app EXCEPT !.scr = s])

SetIntensity(i) == Scheduled([app EXCEPT !.intensity = i])
SetThreshold(t) == Scheduled([app EXCEPT !.threshold = t])
SetShowAll(b) == Scheduled([app EXCEPT !.showAll = b])
SetSearch(text) == Scheduled([app EXCEPT !.search = text])

\* TabNavigation: the district tab is a button only when showDistrictTab
visibleTabs(showDistrictTab) ==
    {"channel", "timeband"} \cup (IF showDistrictTab THEN {"district"} ELSE {})

SetActiveTab(tab) ==
    /\ tab \in visibleTabs(app.market = "UP")
    /\ Scheduled([app EXCEPT !.activeTab = tab])

\* the district tab's content, the DistrictSelector in it, is rendered
districtContentRendered(s) == s.activeTab = "district" /\ s.market = "UP"

OnSerSelect(ser) ==
    /\ districtContentRendered(app)
    /\ Includes(districtData.sers, ser)
    /\ Scheduled([app EXCEPT !.selectedDistrictSer = Some(ser),
                             !.selectedDistrict = Undefined])

\* DistrictSelector: the district buttons are those of the selected region
filteredDistricts(selectedSer) ==
    IF selectedSer # Undefined
    THEN SelectSeq(districtData.districts, LAMBDA d : d.ser = selectedSer[1])
    ELSE << >>

OnDistrictSelect(k) ==
    /\ pc = "idle"
    /\ districtContentRendered(app)
    /\ k \in DOMAIN filteredDistricts(app.selectedDistrictSer)
    /\ Scheduled([app EXCEPT !.selectedDistrict =
                      Some(filteredDistricts(app.selectedDistrictSer)[k].district)])

\* handleOpt: the displayChannels of the last render are optimized; setResults
\* with a new Map schedules a render also when nothing differs
HandleOpt ==
    /\ pc = "idle"
    /\ app' = [app EXCEPT
                 !.results = runOptimization(hooks.displayChannels, app.intensity,
                                             app.threshold),
                 !.isOptimized = TRUE]
    /\ pc' = "dirty"
    /\ UNCHANGED <<channelVars, intensity, timebandVars, geoVars, districtVars, callVars,
                   frameVars, hooks>>

\* a state update that changes nothing the model tracks, as setActiveTooltip of
\* an info button: the component renders again
Rerender ==
    /\ pc = "idle"
    /\ pc' = "dirty"
    /\ UNCHANGED <<channelVars, intensity, timebandVars, geoVars, districtVars, callVars,
                   frameVars, appVars>>

\* One render of the component and the commit of its effects.  Another render
\* is scheduled when an effect changed a state value or called setResults.
\* hooks.commits is the parity of the number of commits made, so that a render
\* which leaves every value as it was is a step all the same.
Render ==
    /\ pc = "dirty"
    /\ LET display == memoOf(app, hooks.deps, hooks.displayChannels)
       IN  /\ app' = effectsOf(app, hooks.deps, hooks.prevOptimizedRef, display)
           /\ hooks' = [prevOptimizedRef |->
                            refAfter(app, hooks.deps, hooks.prevOptimizedRef),
                        deps |-> Some(depsOf(app)),
                        displayChannels |-> display,
                        commits |-> (hooks.commits + 1) % 2]
           /\ pc' = IF \/ setResultsCalled(app, hooks.deps, hooks.prevOptimizedRef, display)
                       \/ effectsOf(app, hooks.deps, hooks.prevOptimizedRef, display) # app
                    THEN "dirty" ELSE "idle"
    /\ UNCHANGED <<channelVars, intensity, timebandVars, geoVars, districtVars, callVars,
                   frameVars>>

\* the SCR names of all markets
AppSCRs == UNION { Range(brandAData[m].scrs) : m \in AppMarkets }
\* positions of the two sliders: the initial one and another
AppIntensities == {15, 25}
AppThresholds == {70, 50}

AppNext ==
    \/ \E m \in AppMarkets : SetMarket(m)
    \/ \E s \in AppSCRs : SetSCR(s)
    \/ \E i \in AppIntensities : SetIntensity(i)
    \/ \E t \in AppThresholds : SetThreshold(t)
    \/ \E b \in BOOLEAN : SetShowAll(b)
    \/ \E text \in SearchTexts : SetSearch(text)
    \/ \E tab \in {"channel", "timeband", "district"} : SetActiveTab(tab)
    \/ \E ser \in Range(districtData.sers) : OnSerSelect(ser)
    \/ \E k \in DOMAIN districtData.districts : OnDistrictSelect(k)
    \/ HandleOpt
    \/ Rerender
    \/ Render

AppSpec == AppInit /\ [][AppNext]_vars

\* The optimization panel on its own, in the market of the URL: the sliders,
\* the filters of the channel table, the optimize button, an info button
PanelNext ==
    \/ \E i \in AppIntensities : SetIntensity(i)
    \/ \E t \in AppThresholds : SetThreshold(t)
    \/ \E b \in BOOLEAN : SetShowAll(b)
    \/ \E text \in SearchTexts : SetSearch(text)
    \/ HandleOpt
    \/ Rerender
    \/ Render

\* React runs every render it has scheduled
AppLiveSpec == AppInit /\ [][PanelNext]_vars /\ WF_vars(Render)

(***************************************************************************)
(* Properties                                                              *)
(***************************************************************************)
HasResult(ch) == ch.channel \in DOMAIN results
Recommended(ch, recommendation) ==
    HasResult(ch) /\ results[ch.channel].recommendation = recommendation

C2_AddIffOpportunity ==
    pc = "optimized" =>
        \A i \in DOMAIN displayChannels :
            LET ch == displayChannels[i]
            IN  /\ Recommended(ch, "ADD") <=> calculateStatus(ch) = "OPPORTUNITY"
                /\ Recommended(ch, "ADD") =>
                       results[ch.channel].priority =
                           IF ch.maxCompReach > 500 THEN "HIGH"
                           ELSE IF ch.maxCompReach > 300 THEN "MEDIUM" ELSE "LOW"

\* the scenario of the specification next to a channel that is no opportunity:
\* an OPPORTUNITY channel recommended ADD, and a channel of the same list not
C2_Witness ==
    /\ pc = "optimized"
    /\ \E i, j \in DOMAIN displayChannels :
        /\ calculateStatus(displayChannels[i]) = "OPPORTUNITY"
        /\ Recommended(displayChannels[i], "ADD")
        /\ calculateStatus(displayChannels[j]) = "CRITICAL"
        /\ Recommended(displayChannels[j], "INCREASE")

C4_DecreaseLowReach ==
    pc = "optimized" =>
        LET protected == getProtectedChannels(displayChannels, threshold)
        IN  \A i \in DOMAIN displayChannels :
            LET ch == displayChannels[i]
            IN  (~Includes(protected, ch.channel) /\ ch.brandAReach > 0
                     /\ ch.brandAReach < 150 /\ ch.indexVsCompetition > 1200)
                  => /\ Recommended(ch, "DECREASE")
                     /\ results[ch.channel].priority = "LOW"

\* C5: INCREASE is recommended only for channels that are not protected: no channel
\* whose name is in getProtectedChannels(channels, threshold) receives INCREASE.
C5_IncreaseOnlyUnprotected ==
    pc = "optimized" =>
        LET protected == getProtectedChannels(displayChannels, threshold)
        IN  \A i \in DOMAIN displayChannels :
            LET ch == displayChannels[i]
            IN  Includes(protected, ch.channel) => ~Recommended(ch, "INCREASE")

\* C6: a channel with brandAReach = 0 that does not satisfy the OPPORTUNITY
\* condition receives no entry in the map returned by runOptimization, whatever
\* its indexVsCompetition, the intensity and the threshold.
C6_InactiveHasNoEntry ==
    pc = "optimized" =>
        \A i \in DOMAIN displayChannels :
            LET ch == displayChannels[i]
                opportunity == ch.maxCompReach >= 200 /\ ch.channelShare >= 100
            IN  (ch.brandAReach = 0 /\ ~opportunity) => ~HasResult(ch)

\* the data-model invariants of a record: gap = brandAReach - maxCompReach and
\* indexVsCompetition = brandAReach / maxCompReach * 100 to its one decimal, or 999
\* when maxCompReach = 0 and brandAReach > 0
SatisfiesDataModel(ch) ==
    /\ ch.gap = ch.brandAReach - ch.maxCompReach
    /\ IF ch.maxCompReach = 0
       THEN ch.brandAReach > 0 => ch.indexVsCompetition = 9990
       ELSE LET off == ch.indexVsCompetition * ch.maxCompReach - 1000 * ch.brandAReach
            IN  2 * off <= ch.maxCompReach /\ -2 * off <= ch.maxCompReach

IncreaseSet(res) == { n \in DOMAIN res : res[n].recommendation = "INCREASE" }

\* C8: intensity is monotone: for a fixed channel list and threshold, if i1 <= i2
\* then every channel recommended INCREASE at i1 is also recommended INCREASE at i2,
\* so the number of INCREASE recommendations never decreases as intensity grows.
C8_IntensityMonotone ==
    pc = "optimized" =>
        \A i2 \in Intensities :
            i2 >= intensity =>
                LET later == runOptimization(displayChannels, i2, threshold)
                IN  /\ IncreaseSet(results) \subseteq IncreaseSet(later)
                    /\ Cardinality(IncreaseSet(results)) <= Cardinality(IncreaseSet(later))

\* a channel recommended INCREASE at intensity 11 that is not at intensity 10
C8_Witness ==
    /\ pc = "optimized"
    /\ intensity = 11
    /\ \E n \in IncreaseSet(results) :
        n \notin IncreaseSet(runOptimization(displayChannels, 10, threshold))

IsPrefix(s, t) == Len(s) <= Len(t) /\ \A i \in DOMAIN s : s[i] = t[i]

\* position of the channel named n in the list chs (names are unique)
PositionOf(chs, n) == CHOOSE i \in DOMAIN chs : chs[i].channel = n
ReachOf(chs, n) == chs[PositionOf(chs, n)].brandAReach

\* a comes before b in the list of channels sorted by brandAReach descending
\* (channels of equal reach in their input order); a strict total order on the
\* names of a list, so a sequence is in this order when its neighbours are
SortsBefore(chs, a, b) ==
    \/ ReachOf(chs, a) > ReachOf(chs, b)
    \/ ReachOf(chs, a) = ReachOf(chs, b) /\ PositionOf(chs, a) < PositionOf(chs, b)

\* C9: getProtectedChannels returns the names of the first ceil(N * threshold/100)
\* channels of the list of channels with brandAReach > 0 sorted by brandAReach
\* descending (N = number of such channels), and it is monotone in threshold: for
\* t1 <= t2 the protected set at t1 is a prefix of the protected set at t2.
C9_ProtectedTopCeil ==
    pc = "protected" =>
        LET withBrandA == { displayChannels[i].channel :
                              i \in { j \in DOMAIN displayChannels :
                                        displayChannels[j].brandAReach > 0 } }
            N == Cardinality(withBrandA)
            ceil == CHOOSE k \in 0..N : 100 * k >= N * threshold
                                        /\ 100 * (k - 1) < N * threshold
            chosen == Range(protectedChannels)
        IN  /\ Len(protectedChannels) = ceil
            /\ chosen \subseteq withBrandA
            /\ \A i \in 1..(Len(protectedChannels) - 1) :
                   SortsBefore(displayChannels, protectedChannels[i],
                               protectedChannels[i + 1])
            /\ \A b \in withBrandA \ chosen :
                   protectedChannels # << >> /\
                   SortsBefore(displayChannels,
                               protectedChannels[Len(protectedChannels)], b)
            /\ \A t2 \in Thresholds :
                   t2 >= threshold =>
                       IsPrefix(protectedChannels,
                                getProtectedChannels(displayChannels, t2))

\* what the code does keep of C9: the protected channels are the first
\* Math.ceil(N * (threshold / 100)) of the sorted list, the product taken in double
\* precision, and a larger threshold only extends the list
C9_ProtectedTopPrefix ==
    pc = "protected" =>
        LET withBrandA == { displayChannels[i].channel :
                              i \in { j \in DOMAIN displayChannels :
                                        displayChannels[j].brandAReach > 0 } }
            N == Cardinality(withBrandA)
            ceil == CHOOSE k \in 0..N : 100 * k >= N * threshold
                                        /\ 100 * (k - 1) < N * threshold
            chosen == Range(protectedChannels)
        IN  /\ Len(protectedChannels) \in {ceil, ceil + 1}
            /\ chosen \subseteq withBrandA
            /\ \A i \in 1..(Len(protectedChannels) - 1) :
                   SortsBefore(displayChannels, protectedChannels[i],
                               protectedChannels[i + 1])
            /\ \A b \in withBrandA \ chosen :
                   protectedChannels # << >> /\
                   SortsBefore(displayChannels,
                               protectedChannels[Len(protectedChannels)], b)
            /\ \A t2 \in Thresholds :
                   t2 >= threshold =>
                       IsPrefix(protectedChannels,
                                getProtectedChannels(displayChannels, t2))

\* the channels the claim says the actionable filter keeps
KeptByClaim(ch) ==
    \/ ch.brandAReach > 100
    \/ ch.brandAReach > 50 /\ ch.channelShare > 50
    \/ ch.brandAReach = 0 /\ ch.maxCompReach >= 200 /\ ch.channelShare >= 100
    \/ ch.brandAReach > 50 /\ ch.brandAReach <= 100 /\ ch.channelShare > 50

\* out holds, in input order, exactly the channels of in that KeptByClaim holds for
KeepsExactly(in, out) ==
    /\ Len(out) = Cardinality({ i \in DOMAIN in : KeptByClaim(in[i]) })
    /\ \A j \in DOMAIN out : \E i \in DOMAIN in : in[i] = out[j] /\ KeptByClaim(in[i])
    /\ \A i \in DOMAIN in : KeptByClaim(in[i]) => \E j \in DOMAIN out : out[j] = in[i]
    /\ \A j \in 1..(Len(out) - 1) :
           PositionOf(in, out[j].channel) < PositionOf(in, out[j + 1].channel)

\* C10: filterRelevantChannels returns its input unchanged in mode 'all'; in mode
\* 'actionable' it returns, in input order, exactly the channels for which
\* (brandAReach > 1.0) or (brandAReach > 0.5 and channelShare > 0.5) or
\* (brandAReach = 0 and maxCompReach >= 2.0 and channelShare >= 1.0) or
\* (0.5 < brandAReach <= 1.0 and channelShare > 0.5) holds, and applying the filter
\* twice gives the same list as applying it once.  (A step that leaves pc at
\* "ready" is a call of the filter; filterMode' is its mode.)
C10_FilterContract ==
    [][ (pc = "ready" /\ pc' = "ready") =>
          /\ filterMode' = "all" => displayChannels' = displayChannels
          /\ filterMode' = "actionable" =>
                 /\ KeepsExactly(displayChannels, displayChannels')
                 /\ filterRelevantChannels(displayChannels', "actionable")
                        = displayChannels'
          /\ (filterMode = "actionable" /\ filterMode' = "actionable") =>
                 displayChannels' = displayChannels ]_vars

\* the actionable filter has dropped the first and the last channel of a list of
\* three and kept the one between
C10_Witness ==
    /\ pc = "ready"
    /\ filterMode = "actionable"
    /\ Len(channels) = 3
    /\ ~KeptByClaim(channels[1])
    /\ ~KeptByClaim(channels[3])
    /\ displayChannels = <<channels[2]>>

\* C11: calculateTimebandOptimizationScore returns a rawScore between 0 and 100 in
\* every market, and at most 85 outside Karnataka, for every timeband of
\* allTimebands with non-negative reach, competitor reach and OTS, Karnataka
\* timebands carrying the atcIndex of calculateTimebandATCIndex.
C11_ScoreWithinRange ==
    pc = "ranked" =>
        \A k \in DOMAIN scores :
            /\ ~RatLess(scores[k].rawScore, Rat(0, 1))
            /\ ~RatLess(Rat(100, 1), scores[k].rawScore)
            /\ market # "Karnataka" => ~RatLess(Rat(85, 1), scores[k].rawScore)

\* what the code does keep of C11: the three components that every market has stay
\* within their weights 40, 25 and 20, so the score is within 0..85 outside Karnataka
C11_ComponentsWithinWeights ==
    pc = "ranked" =>
        \A k \in DOMAIN scores :
            LET c == scores[k].components
            IN  /\ ~RatLess(c.reachScore, Rat(0, 1)) /\ ~RatLess(Rat(40, 1), c.reachScore)
                /\ ~RatLess(c.competitiveScore, Rat(0, 1))
                /\ ~RatLess(Rat(25, 1), c.competitiveScore)
                /\ ~RatLess(c.efficiencyScore, Rat(0, 1))
                /\ ~RatLess(Rat(20, 1), c.efficiencyScore)
                /\ market # "Karnataka" =>
                       /\ c.atcScore = Undefined
                       /\ ~RatLess(Rat(85, 1), scores[k].rawScore)

\* rank of the k-th of the scored timebands by rawScore descending (equal scores
\* in input order)
RankByScore(scored, k) ==
    1 + Cardinality({ j \in DOMAIN scored :
            \/ RatLess(scored[k].rawScore, scored[j].rawScore)
            \/ scored[j].rawScore = scored[k].rawScore /\ j < k })

\* C12: generateTimebandRecommendations returns one recommendation per input
\* timeband, in input order, chosen by the first matching rule: ADD if
\* brandAReach = 0 and maxCompReach >= 2.0; else INCREASE if gap < gapThreshold and
\* rawScore >= scoreThreshold (thresholds (-3,50), (-2,60), (-1,70) for intensity
\* <= 10, <= 20, > 20); else MAINTAIN if the rank by rawScore descending is <= 3 or
\* gap >= 0; else DECREASE if rawScore < 30 and brandAReach < 1.0 and the band is
\* not primetime; else MAINTAIN.
C12_TimebandRuleChain ==
    pc = "recommended" =>
      LET scored == scoreEach(timebands, timebands, market)
      IN
        /\ Len(recommendations) = Len(timebands)
        /\ \A k \in DOMAIN timebands :
            LET tb == timebands[k]
                rawScore == scored[k].rawScore
                rank == RankByScore(scored, k)
                gapLimit == CASE intensity <= 10 -> -30
                              [] intensity > 10 /\ intensity <= 20 -> -20
                              [] intensity > 20 -> -10
                scoreLimit == CASE intensity <= 10 -> 50
                                [] intensity > 10 /\ intensity <= 20 -> 60
                                [] intensity > 20 -> 70
                add == tb.brandAReach = 0 /\ tb.maxCompReach >= 20
                increase == tb.gap < gapLimit /\ ~RatLess(rawScore, Rat(scoreLimit, 1))
                top == rank <= 3 \/ tb.gap >= 0
                decrease == RatLess(rawScore, Rat(30, 1)) /\ tb.brandAReach < 10
                                /\ tb.timeband = "NPT"
                expected == IF add THEN "ADD"
                            ELSE IF increase THEN "INCREASE"
                            ELSE IF top THEN "MAINTAIN"
                            ELSE IF decrease THEN "DECREASE"
                            ELSE "MAINTAIN"
            IN  /\ recommendations[k].timeband = tb.timeband
                /\ recommendations[k].recommendation = expected

\* one channel whose non-prime band is recommended DECREASE while a prime band is
\* recommended INCREASE and another MAINTAIN, in the order of the input
C12_Witness ==
    /\ pc = "recommended"
    /\ Len(recommendations) = 4
    /\ recommendations[1].recommendation = "DECREASE"
    /\ \E j, k \in 2..4 :
        /\ recommendations[j].recommendation = "INCREASE"
        /\ recommendations[k].recommendation = "MAINTAIN"

MinGap(tbs) == CHOOSE g \in { tbs[k].gap : k \in DOMAIN tbs } :
                   \A k \in DOMAIN tbs : g <= tbs[k].gap

\* C13: findTopAction via generateSimplifiedInsights.  Let g be the minimum gap.
\* If no band has a negative gap or g > -1, the result is MAINTAIN (priority LOW,
\* uplift 0) on the band with the largest gap among bands with gap > 5, or null if
\* there is none; otherwise INVEST on the first band attaining g, with
\* estimatedUplift = |g| * 0.4 and priority HIGH if (band is CPT and g < -5) or
\* |g| > 5, LOW if |g| < 2, else MEDIUM.  topActionPriority is 'NONE' exactly when
\* topAction is null.
C13_TopAction ==
    /\ pc = "insights" =>
           ((insights.topActionPriority = "NONE") <=> (insights.topAction = Undefined))
    /\ (pc = "insights" /\ timebands # << >>) =>
        LET g == MinGap(timebands)
            first == CHOOSE k \in DOMAIN timebands :
                        /\ timebands[k].gap = g
                        /\ \A j \in 1..(k - 1) : timebands[j].gap # g
            strong == { k \in DOMAIN timebands : timebands[k].gap > 50 }
            top == insights.topAction
        IN  IF g >= 0 \/ g > -10
            THEN IF strong = {}
                 THEN top = Undefined
                 ELSE /\ top # Undefined
                      /\ top[1].action = "MAINTAIN"
                      /\ insights.topActionPriority = "LOW"
                      /\ top[1].estimatedUplift = 0
                      /\ \E k \in strong :
                           /\ top[1].timeband = timebands[k].timeband
                           /\ \A j \in strong : timebands[j].gap <= timebands[k].gap
            ELSE /\ top # Undefined
                 /\ top[1].action = "INVEST"
                 /\ top[1].timeband = timebands[first].timeband
                 /\ top[1].estimatedUplift = Abs(g) * 4
                 /\ insights.topActionPriority =
                        IF (timebands[first].timeband = "CPT" /\ g < -50) \/ Abs(g) > 50
                        THEN "HIGH"
                        ELSE IF Abs(g) < 20 THEN "LOW" ELSE "MEDIUM"

\* the minimum gap -2.0 is attained by the second and the fourth band: INVEST on the
\* second, priority MEDIUM, uplift 0.8
C13_Witness ==
    /\ pc = "insights"
    /\ Len(timebands) = 4
    /\ MinGap(timebands) = -20
    /\ timebands[1].gap > 50
    /\ timebands[2].gap = -20
    /\ timebands[4].gap = -20
    /\ insights.topAction # Undefined
    /\ insights.topAction[1].timeband = "NCPT_EARLY"
    /\ insights.topAction[1].action = "INVEST"
    /\ insights.topAction[1].estimatedUplift = 80
    /\ insights.topActionPriority = "MEDIUM"

(***************************************************************************)
(* C14: in every comparison compareTimebandAcrossGeographies returns,      *)
(* bestPerformingMarket is a market whose value is >= the values of all    *)
(* three markets and worstPerformingMarket one whose value is <= all       *)
(* three; among markets tied for the maximum (minimum) the one reported is *)
(* the first in the order UP, Maharashtra, Karnataka.                      *)
(***************************************************************************)
\* position of a market in the order UP, Maharashtra, Karnataka
MarketRank(m) == CHOOSE k \in 1..3 : MarketOrder[k] = m

C14_BestWorstMarket ==
    pc = "compared" =>
        /\ Len(comparisons) = Len(timebandNames)
        /\ \A k \in 1..Len(comparisons) :
               LET c     == comparisons[k]
                   best  == c.bestPerformingMarket
                   worst == c.worstPerformingMarket
               IN  /\ c.timeband = timebandNames[k]
                   /\ \A m \in {"UP", "Maharashtra", "Karnataka"} :
                          /\ c.markets[m] =
                                 getTimebandReach(allMarketData[m], "channel", c.timeband)
                          /\ c.markets[best] >= c.markets[m]
                          /\ c.markets[worst] <= c.markets[m]
                          /\ c.markets[m] = c.markets[best] =>
                                 MarketRank(best) <= MarketRank(m)
                          /\ c.markets[m] = c.markets[worst] =>
                                 MarketRank(worst) <= MarketRank(m)

\* in one band Karnataka is best before a Maharashtra value larger than UP's, in
\* another UP and Maharashtra tie for the maximum and Karnataka is worst
C14_Witness ==
    /\ pc = "compared"
    /\ \E k \in 1..Len(comparisons) :
           /\ comparisons[k].bestPerformingMarket = "Karnataka"
           /\ comparisons[k].markets.Maharashtra > comparisons[k].markets.UP
    /\ \E k \in 1..Len(comparisons) :
           /\ comparisons[k].bestPerformingMarket = "UP"
           /\ comparisons[k].worstPerformingMarket = "Karnataka"
           /\ comparisons[k].markets.UP = comparisons[k].markets.Maharashtra
           /\ comparisons[k].markets.Karnataka < comparisons[k].markets.UP


(***************************************************************************)
(* C15: calculateDistrictChannels returns one record per channel of the    *)
(* region, in the same order, with channel, genre, channelShare and        *)
(* indexVsBaseline as in the region.  A channel whose region-level         *)
(* brandAReach is 0 has brandAReach 0 in the district, and a channel       *)
(* judged absent (presence score below the threshold) has brandAReach, the *)
(* competitor reaches, maxCompReach, gap and indexVsCompetition 0 and, in  *)
(* every timeband, reach, share, OTS, maxCompReach and gap 0.              *)
(***************************************************************************)
\* the number is 0 (and not NaN)
isZero(a) == ~ isNaN(a) /\ a.num = 0

\* the channel's presence score in the district is below its threshold
judgedAbsent(ch, chs, d) ==
    less(presenceScoreOf(channelStrengthOf(ch.brandAReach, maxInSer(chs, "brandAReach"),
                                           ch.channelShare, maxInSer(chs, "channelShare")),
                         districtAccessOf(d)),
         presenceThreshold(d.district, ch.channel))

allZeroInDistrict(out) ==
    /\ isZero(out.brandAReach) /\ isZero(out.maxCompReach) /\ isZero(out.gap)
    /\ isZero(out.indexVsCompetition)
    /\ out.brandDReach # Undefined /\ isZero(out.brandDReach[1])
    /\ out.luxReach # Undefined /\ isZero(out.luxReach[1])
    /\ out.timebands # Undefined =>
           \A b \in 1..Len(out.timebands[1]) :
               LET tb == out.timebands[1][b]
               IN  /\ isZero(tb.brandAReach) /\ isZero(tb.brandAShare)
                   /\ isZero(tb.brandAOTS) /\ isZero(tb.maxCompReach) /\ isZero(tb.gap)

C15_AbsentChannelFrame ==
    pc = "scaled" =>
        /\ Len(districtChannels) = Len(serChannels)
        /\ \A k \in 1..Len(serChannels) :
               LET ch  == serChannels[k]
                   out == districtChannels[k]
               IN  /\ out.channel = ch.channel
                   /\ out.genre = ch.genre
                   /\ out.channelShare = ch.channelShare
                   /\ out.indexVsBaseline = ch.indexVsBaseline
                   /\ (out.timebands = Undefined) = (ch.timebands = Undefined)
                   /\ isZero(ch.brandAReach) => isZero(out.brandAReach)
                   /\ judgedAbsent(ch, serChannels, district) => allZeroInDistrict(out)

\* the four channels were scaled with their timebands: the one with reach 0 in the
\* region and one with positive reach in every band are absent from the
\* district, after a channel that is present
C15_Witness ==
    /\ pc = "scaled"
    /\ Len(serChannels) = 4
    /\ ~ judgedAbsent(serChannels[1], serChannels, district)
    /\ ~ isZero(districtChannels[1].brandAReach)
    /\ \E k \in 2..4 :
           /\ judgedAbsent(serChannels[k], serChannels, district)
           /\ serChannels[k].timebands # Undefined
           /\ \A b \in 1..4 : ~ isZero(serChannels[k].timebands[1][b].brandAReach)
           /\ isZero(districtChannels[k].timebands[1][1].brandAReach)
    /\ \E k \in 2..4 :
           /\ isZero(serChannels[k].brandAReach)
           /\ ~ isZero(serChannels[k].maxCompReach)
           /\ isZero(districtChannels[k].maxCompReach)

(***************************************************************************)
(* C16: every channel record and every timeband record produced by          *)
(* calculateDistrictChannels and by generateSampleTimebandData has          *)
(* gap = brandAReach - maxCompReach, and every district channel record has *)
(* indexVsCompetition = 999 when maxCompReach = 0 and brandAReach > 0, 0    *)
(* when both are 0, and brandAReach / maxCompReach * 100 to one decimal     *)
(* otherwise.  NaN is equal to no number.                                   *)
(***************************************************************************)
\* a === b for numbers
sameNumber(a, b) == ~ isNaN(a) /\ ~ isNaN(b) /\ a = b

gapHolds(r) == sameNumber(r.gap, minus(r.brandAReach, r.maxCompReach))

indexHolds(r) ==
    IF sameNumber(r.maxCompReach, RatOf(0))
    THEN IF less(RatOf(0), r.brandAReach) THEN sameNumber(r.indexVsCompetition, RatOf(999))
         ELSE sameNumber(r.brandAReach, RatOf(0))
              /\ sameNumber(r.indexVsCompetition, RatOf(0))
    ELSE /\ ~ isNaN(r.brandAReach)
         /\ less(RatOf(0), r.maxCompReach)
         /\ sameNumber(r.indexVsCompetition,
                       toFixed(RatMul(RatDiv(r.brandAReach, r.maxCompReach), RatOf(100)), 1))

bandsHold(r) ==
    r.timebands # Undefined => \A k \in 1..Len(r.timebands[1]) : gapHolds(r.timebands[1][k])

C16_GapAndIndex ==
    /\ pc = "enriched" => \A k \in 1..Len(serChannels) : bandsHold(serChannels[k])
    /\ pc = "scaled" =>
           \A k \in 1..Len(districtChannels) :
               /\ gapHolds(districtChannels[k])
               /\ indexHolds(districtChannels[k])
               /\ bandsHold(districtChannels[k])

(***************************************************************************)
(* C17: in every record produced by calculateDistrictChannels, at channel  *)
(* level and in each of its timebands, maxCompReach is the maximum of the  *)
(* record's own competitor reaches, and 0 when it has none.                *)
(* Stated for a region with districts, where every factor is a number.    *)
(***************************************************************************)
competitorFields == {"brandDReach", "luxReach", "brandEReach", "brandBReach", "brandCReach"}

\* the largest competitor reach the record itself carries; an undefined or NaN
\* reach counts as none
ownCompetitorMax(r) ==
    LET reaches == { orZero(r[f]) : f \in competitorFields \cap DOMAIN r }
    IN  CHOOSE m \in reaches \cup {RatOf(0)} :
            \A x \in reaches \cup {RatOf(0)} : RatLeq(x, m)

maxCompReachIsOwn(r) == r.maxCompReach = ownCompetitorMax(r)

C17_MaxCompReachOwn ==
    (pc = "scaled" /\ serDistricts # << >>) =>
        \A k \in 1..Len(districtChannels) :
            LET out == districtChannels[k]
            IN  /\ maxCompReachIsOwn(out)
                /\ out.timebands # Undefined =>
                       \A b \in 1..Len(out.timebands[1]) :
                           maxCompReachIsOwn(out.timebands[1][b])


(***************************************************************************)
(* C18: for a channel present in the district, the sum over its bands of   *)
(* the district-level brandAReach is finalFactor times the sum of the       *)
(* region-level band brandAReach values, up to the rounding to two         *)
(* decimals of each band (0.005 a band).  Stated for a region with          *)
(* districts, where finalFactor is a number.                                *)
(***************************************************************************)
\* | a - w * c | <= t for rationals a, c, t and a wide rational w, all >= 0
withinOfProduct(a, w, c, t) ==
    LET scale == WideTimes(WideTimes(WideTimes(w.den, a.den), c.den), t.den)
        left == WideTimes(WideTimes(WideTimes(w.den, a.num), c.den), t.den)
        right == WideTimes(WideTimes(WideTimes(w.num, c.num), a.den), t.den)
        slack == WideTimes(WideTimes(WideTimes(w.den, a.den), c.den), t.num)
    IN  /\ ~ isZeroWide(scale)
        /\ ~ WideLess(WideAdd(right, slack), left)
        /\ ~ WideLess(WideAdd(left, slack), right)

aggregatePreserved(ch, out, d, ds, chs) ==
    LET f == factorsOf(ch, d, getBaseCdmiFactor(d, ds), maxInSer(chs, "channelShare"))
        bands == Len(out.timebands[1])
    IN  withinOfProduct(sumBrandAReach(out.timebands[1]), f.finalFactor,
                        sumBrandAReach(ch.timebands[1]), Rat(5 * bands, 1000))

C18_AggregatePreserved ==
    (pc = "scaled" /\ serDistricts # << >>) =>
        \A k \in 1..Len(districtChannels) :
            (/\ isPresentIn(serChannels[k], serChannels, district)
             /\ serChannels[k].timebands # Undefined)
            => aggregatePreserved(serChannels[k], districtChannels[k], district,
                                  serDistricts, serChannels)

(***************************************************************************)
(* C19: for a fixed district name, channel name and channel strength, a    *)
(* channel present in a district of access a is present in every district  *)
(* of access a' >= a, where a = 0.35 * urban + 0.30 * tvOwnership          *)
(* + 0.20 * electrification + 0.15 * internet; a channel whose presence    *)
(* score is at least 0.22 is present and one whose score is below 0.14 is  *)
(* absent, whatever the names.  The score is the one getChannelPresence    *)
(* computes, for a channel of positive reach in the region.                *)
(***************************************************************************)
accessOfClaim(d) ==
    RatSum(RatSum(Rat(35 * d.urbanPct.num, 100 * d.urbanPct.den),
                  Rat(30 * d.tvOwnershipPct.num, 100 * d.tvOwnershipPct.den)),
           RatSum(Rat(20 * d.electrificationPct.num, 100 * d.electrificationPct.den),
                  Rat(15 * d.internetPct.num, 100 * d.internetPct.den)))

\* the same district name with each of the profiles
sameNameDistricts == { ProfiledDistrict(district.district, p) : p \in DistrictProfiles }

scoreIn(ch, chs, d) ==
    presenceScoreOf(channelStrengthOf(ch.brandAReach, maxInSer(chs, "brandAReach"),
                                      ch.channelShare, maxInSer(chs, "channelShare")),
                    districtAccessOf(d))

numbersOnly(r) ==
    /\ ~ isNaN(r.brandAReach) /\ ~ isNaN(r.maxCompReach) /\ ~ isNaN(r.gap)
    /\ r.brandDReach # Undefined => ~ isNaN(r.brandDReach[1])
    /\ r.luxReach # Undefined => ~ isNaN(r.luxReach[1])

C20_NoZeroDenominator ==
    pc = "scaled" =>
        /\ ~ isNaN(getBaseCdmiFactor(district, serDistricts))
        /\ \A k \in 1..Len(districtChannels) :
               LET out == districtChannels[k]
               IN  /\ numbersOnly(out)
                   /\ ~ isNaN(out.indexVsCompetition)
                   /\ out.timebands # Undefined =>
                          \A b \in 1..Len(out.timebands[1]) : numbersOnly(out.timebands[1][b])

(***************************************************************************)
(* C21: getChannelJitter and getChannelPresence are pure: two calls with   *)
(* identical arguments return the identical value whatever calls were made *)
(* between them and in whatever order, and a jitter lies in                *)
(* [-varianceRange, +varianceRange], where varianceRange is                *)
(* (1 - channelShare / maxShareInSer) * 0.08.                              *)
(***************************************************************************)
varianceRangeOf(share, maxShare) == Rat((maxShare - share) * 8, maxShare * 100)

OtherGenres ==
    {"News", "Hindi News", "English News", "Business News", "English Entertainment",
     "English Movies", "Devotional", "Bhojpuri", "Punjabi", "Regional", "Kids",
     "Hindi Movies", "Movies", "Music", "Sports", "Infotainment", "Lifestyle"}

\* 1 + (0.20 - urbanPct) * 0.70 for urbanPct in hundredths
ruralBoost(urban) == Rat(10000 + (20 - urban) * 70, 10000)

\* C23: getGenreAffinity for a genre of the GEC category, and for a genre key the
\* table does not hold, is 1 + (0.20 - urbanPct) * 0.70 when urbanPct < 0.20 and
\* exactly 1.0 otherwise, so it is never below 1.0; for every genre and every
\* urbanPct and literacyPct in [0, 1] the result lies in [0.75, 1.35].
C23_GenreAffinity ==
    \A i \in 1..Len(jitterCalls) :
        jitterCalls[i].fn = "getGenreAffinity" =>
            LET genre == jitterCalls[i].args[1]
                urban == jitterCalls[i].args[2]
                value == jitterCalls[i].value
            IN  /\ genre \notin OtherGenres =>
                       /\ urban < 20 => value = ruralBoost(urban)
                       /\ urban >= 20 => value = RatOf(1)
                       /\ RatLeq(RatOf(1), value)
                /\ RatLeq(Rat(75, 100), value)
                /\ RatLeq(value, Rat(135, 100))

\* the rural boost of a genre key the table does not hold: 1.105 at urbanPct 0.05
C23_Witness ==
    /\ Len(jitterCalls) = 1
    /\ jitterCalls[1].fn = "getGenreAffinity"
    /\ jitterCalls[1].args[1] = "Hindi Comedy"
    /\ jitterCalls[1].args[2] = 5
    /\ jitterCalls[1].value = Rat(1105, 1000)

\* the names of the channels of a list
NamesOf(chs) == { chs[k].channel : k \in DOMAIN chs }

\* C24: filter and optimizer are aligned: for a channel list with distinct names,
\* every channel kept by filterRelevantChannels(channels, 'actionable') has
\* exactly one entry in runOptimization(kept, intensity, threshold), for the
\* intensities of 5..30 and the thresholds of 50..90, and every key of the result
\* map is the name of one of the input channels.
C24_FilterOptimizerAligned ==
    (pc = "optimized" /\ filterMode = "actionable") =>
        /\ displayChannels = filterRelevantChannels(channels, "actionable")
        /\ \A k \in DOMAIN displayChannels :
               /\ displayChannels[k].channel \in DOMAIN results
               /\ results[displayChannels[k].channel].channel = displayChannels[k].channel
        /\ DOMAIN results \subseteq NamesOf(channels)
        /\ Cardinality(DOMAIN results) = Len(displayChannels)

\* the filter has dropped a channel and kept an opportunity and a channel
\* with reach, and each has its entry
C24_Witness ==
    /\ pc = "optimized"
    /\ filterMode = "actionable"
    /\ Len(displayChannels) < Len(channels)
    /\ \E j, k \in DOMAIN displayChannels :
           /\ displayChannels[j].brandAReach = 0
           /\ results[displayChannels[j].channel].recommendation = "ADD"
           /\ displayChannels[k].brandAReach > 0
           /\ displayChannels[k].channel \in DOMAIN results

\* the filter predicate with tier 3 removed
isRelevantWithoutEmerging(ch) == isActiveBrandAChannel(ch) \/ isRealOpportunity(ch)

\* C25: the third tier of the relevance filter is redundant: for every channel the
\* 'emerging' predicate (0.5 < brandAReach <= 1.0 and channelShare > 0.5) implies
\* the 'active' predicate, so the actionable filter with tier 3 removed keeps
\* exactly the same channels, and every kept channel has brandAReach > 0.5 or is
\* an OPPORTUNITY.
C25_EmergingRedundant ==
    /\ \A k \in DOMAIN channels :
           isEmergingChannel(channels[k]) => isActiveBrandAChannel(channels[k])
    /\ filterMode = "actionable" =>
           /\ displayChannels = SelectSeq(channels, isRelevantWithoutEmerging)
           /\ \A k \in DOMAIN displayChannels :
                  \/ displayChannels[k].brandAReach > 50
                  \/ calculateStatus(displayChannels[k]) = "OPPORTUNITY"

\* the filter has kept an emerging channel of reach 1.0
C25_Witness ==
    /\ filterMode = "actionable"
    /\ \E k \in DOMAIN displayChannels :
           /\ isEmergingChannel(displayChannels[k])
           /\ displayChannels[k].brandAReach = 100

carriedBands(ch) ==
    IF ch.timebands = Undefined THEN {}
    ELSE { b \in Range(ch.timebands[1]) :
             b.timeband \in Range(TIMEBAND_LABELS) /\ b.brandAReach > 0 }

\* C27: cross-geography comparison reads the bands the channels carry: for a
\* channel present in a market whose timebands use the 4-band labels of
\* TIMEBAND_LABELS (NPT, NCPT_EARLY, CPT, NCPT_LATE) and have a positive
\* brandAReach in some band, compareTimebandAcrossGeographies returns at least one
\* comparison whose value for that market is that band's brandAReach (not 0).
C27_ReadsCarriedBands ==
    pc = "compared" =>
        \A m \in Range(MarketOrder) :
            \A i \in DOMAIN allMarketData[m] :
                (allMarketData[m][i].channel = "channel"
                    /\ carriedBands(allMarketData[m][i]) # {}) =>
                    \E k \in DOMAIN comparisons, b \in carriedBands(allMarketData[m][i]) :
                        comparisons[k].markets[m] = b.brandAReach

\* C28: the automatic re-optimization terminates: from a state in which
\* optimization has been run (isOptimized is true and the ref holds it), once a
\* user action has scheduled a render, in any market, the renders and the
\* effects they commit reach a state in which no further render is scheduled.
C28_ReoptimizationTerminates ==
    (pc = "dirty" /\ app.isOptimized /\ hooks.prevOptimizedRef) ~> (pc = "idle")

\* C29: changing market or SCR resets the optimization: in a settled state
\* (no render scheduled) in which isOptimized is false, the state after the
\* effects of a market or SCR change until the next optimization, results is
\* the empty map; and in a settled state in which isOptimized is true, results
\* is runOptimization(displayChannels, intensity, threshold) for the current
\* values.
C29_ResetOnSelectionChange ==
    pc = "idle" =>
        /\ ~ app.isOptimized => app.results = << >>
        /\ app.isOptimized =>
               app.results = runOptimization(hooks.displayChannels, app.intensity,
                                             app.threshold)

\* the DistrictRecord of the data with the selected region and district
isDistrictOf(selectedDistrict, selectedSer) ==
    \E k \in DOMAIN districtData.districts :
        /\ districtData.districts[k].ser = selectedSer[1]
        /\ districtData.districts[k].district = selectedDistrict[1]

\* C30: district analysis exists only for UP: in a settled state (no render
\* scheduled) with a market other than UP the active tab is not the district
\* tab and no region and no district is selected; the district content is
\* rendered in no state with a market other than UP; and a selected district
\* is always a district of the selected region.
C30_DistrictOnlyForUP ==
    /\ pc = "idle" /\ app.market # "UP" =>
           /\ app.activeTab # "district"
           /\ app.selectedDistrictSer = Undefined
           /\ app.selectedDistrict = Undefined
    /\ districtContentRendered(app) => app.market = "UP"
    /\ app.selectedDistrict # Undefined =>
           /\ app.selectedDistrictSer # Undefined
           /\ isDistrictOf(app.selectedDistrict, app.selectedDistrictSer)

\* a render with a market other than UP and the district tab active has been
\* committed: its effect has left the tab and no region or district is selected
C30_Witness ==
    /\ app.market # "UP"
    /\ hooks.deps # Undefined
    /\ hooks.deps[1].market # "UP"
    /\ hooks.deps[1].activeTab = "district"
    /\ app.activeTab = "channel"
    /\ app.selectedDistrictSer = Undefined
    /\ app.selectedDistrict = Undefined
====
